---- MODULE Spec2Model ----
(***************************************************************************)
(* majerus: team-name normalisation (majerus/parser.py), the rolling        *)
(* feature aggregation of a season's game logs (majerus/process.py), the   *)
(* game log scrapers (majerus/scraper.py) and the season dates             *)
(* (majerus/utils.py).                                                     *)
(*                                                                         *)
(* A Python str is a sequence of one-character strings, so that the        *)
(* character-level steps of the normaliser (replace, split, join) are      *)
(* computed and not assumed.                                               *)
(***************************************************************************)
EXTENDS Integers, Sequences, FiniteSets, TLC

VARIABLES
  df,        \* the caller's season log: the DataFrame handed to process_game_logs
  binding,   \* how the names feature_cols/team_tf/team_df of process.py resolve
  call,      \* arguments of the process_game_logs call, or NoCall
  result,    \* outcome of the process_game_logs call, or NoCall
  nn_call,   \* arguments of the name_normalizer call, or NoCall
  nn_result, \* outcome of the name_normalizer call, or NoCall
  site,      \* what sports-reference.com serves for the team's game log pages
  requests,  \* the requests issued so far, with their headers and proxies
  sc_call,   \* arguments of the scraper call, or NoCall
  sc_result, \* outcome of the scraper call, or NoCall
  dt_call,   \* the two seasons whose dates are read from utils, or NoCall
  dt_result  \* the dates read, or NoCall

vars == <<df, binding, call, result, nn_call, nn_result,
          site, requests, sc_call, sc_result, dt_call, dt_result>>

NoCall == [kind |-> "none"]

----------------------------------------------------------------------------
(* Bounds of the explored inputs.                                          *)

\* longest season log handed to process_game_logs
MaxRows == 4
\* largest skip_first_n
MaxWarmup == 2
\* most whitespace-delimited tokens in a composed raw team name
MaxTokens == 3

----------------------------------------------------------------------------
(* Python values.                                                          *)

\* a str value
Str(s) == [t |-> "str", s |-> s]

\* numpy.nan
NaN == [t |-> "float", nan |-> TRUE]

\* the float num/den, in lowest terms
Float(num, den) == [t |-> "float", num |-> num, den |-> den]

\* Python == between a returned name and a str: nan is equal to nothing
PyEq(a, b) == a.t = "str" /\ b.t = "str" /\ a.s = b.s

\* the elements of a sequence
Range(s) == {s[i] : i \in 1..Len(s)}

----------------------------------------------------------------------------
(* str methods, on sequences of characters.                                *)

UpperCase == <<"A","B","C","D","E","F","G","H","I","J","K","L","M",
               "N","O","P","Q","R","S","T","U","V","W","X","Y","Z">>
LowerCase == <<"a","b","c","d","e","f","g","h","i","j","k","l","m",
               "n","o","p","q","r","s","t","u","v","w","x","y","z">>

\* str.lower() on one character
LowerChar(c) ==
  IF \E i \in 1..26 : UpperCase[i] = c
  THEN LowerCase[CHOOSE i \in 1..26 : UpperCase[i] = c]
  ELSE c

\* str.lower()
Lower(s) == [i \in 1..Len(s) |-> LowerChar(s[i])]

\* unicodedata.normalize("NFKD", .) on one character: the compatibility
\* decomposition. ASCII is left alone; U+00A0 (no-break space, "nbsp")
\* becomes a space; U+00E9 ("e-acute") becomes e + U+0301 ("acute").
NFKDChar(c) ==
  CASE c = "nbsp"    -> <<" ">>
    [] c = "e-acute" -> <<"e", "acute">>
    [] OTHER         -> <<c>>

RECURSIVE NFKD(_)
NFKD(s) == IF s = <<>> THEN <<>> ELSE NFKDChar(Head(s)) \o NFKD(Tail(s))

\* the characters str.strip() and str.split() treat as whitespace
Whitespace == {" ", "\t", "\n"}

RECURSIVE LStrip(_)
LStrip(s) == IF s # <<>> /\ Head(s) \in Whitespace THEN LStrip(Tail(s)) ELSE s

RECURSIVE RStrip(_)
RStrip(s) ==
  IF s # <<>> /\ s[Len(s)] \in Whitespace THEN RStrip(SubSeq(s, 1, Len(s) - 1)) ELSE s

\* str.strip()
Strip(s) == RStrip(LStrip(s))

\* sub occurs in s at position i
OccursAt(s, sub, i) ==
  /\ i + Len(sub) - 1 <= Len(s)
  /\ SubSeq(s, i, i + Len(sub) - 1) = sub

\* sub in s
Contains(s, sub) == \E i \in 1..Len(s) : OccursAt(s, sub, i)

\* str.replace(old, new): every non-overlapping occurrence, left to right
RECURSIVE Replace(_, _, _)
Replace(s, old, new) ==
  IF s = <<>> THEN <<>>
  ELSE IF OccursAt(s, old, 1)
       THEN new \o Replace(SubSeq(s, Len(old) + 1, Len(s)), old, new)
       ELSE <<Head(s)>> \o Replace(Tail(s), old, new)

\* str.split(sep) with a one-character separator: empty strings are kept
RECURSIVE SplitOn(_, _)
SplitOn(s, sep) ==
  IF \E i \in 1..Len(s) : s[i] = sep
  THEN LET i == CHOOSE j \in 1..Len(s) : s[j] = sep /\ \A k \in 1..(j - 1) : s[k] # sep
       IN  <<SubSeq(s, 1, i - 1)>> \o SplitOn(SubSeq(s, i + 1, Len(s)), sep)
  ELSE <<s>>

\* str.split(): runs of whitespace separate, no empty strings
RECURSIVE Split(_)
Split(s) ==
  LET t == LStrip(s) IN
  IF t = <<>> THEN <<>>
  ELSE IF \E i \in 1..Len(t) : t[i] \in Whitespace
       THEN LET i == CHOOSE j \in 1..Len(t) :
                       t[j] \in Whitespace /\ \A k \in 1..(j - 1) : t[k] \notin Whitespace
            IN  <<SubSeq(t, 1, i - 1)>> \o Split(SubSeq(t, i + 1, Len(t)))
       ELSE <<t>>

\* sep.join(words)
RECURSIVE Join(_, _)
Join(sep, words) ==
  IF words = <<>> THEN <<>>
  ELSE IF Len(words) = 1 THEN words[1]
       ELSE words[1] \o sep \o Join(sep, Tail(words))

\* [el for el in words if el]
RECURSIVE NonEmpty(_)
NonEmpty(words) ==
  IF words = <<>> THEN <<>>
  ELSE IF Head(words) = <<>> THEN NonEmpty(Tail(words))
       ELSE <<Head(words)>> \o NonEmpty(Tail(words))

\* for char in chars: s = s.replace(char, "")
RECURSIVE RemoveChars(_, _)
RemoveChars(s, chars) ==
  IF chars = <<>> THEN s
  ELSE RemoveChars(Replace(s, <<Head(chars)>>, <<>>), Tail(chars))

----------------------------------------------------------------------------
(* parser.py: the team alias table.                                        *)

\* the dict literal: alias (key) and canonical id (value) of every entry
__team_names ==
  LET items == {
    <<<<"a","b","i","l","e","n","e","-","c","h","r","i","s","t","i","a","n">>, <<"a","b","i","l","e","n","e","-","c","h","r","i","s","t","i","a","n">>>>,
    <<<<"a","i","r","-","f","o","r","c","e">>, <<"a","i","r","-","f","o","r","c","e">>>>,
    <<<<"a","k","r","o","n">>, <<"a","k","r","o","n">>>>,
    <<<<"a","l","a","b","a","m","a","-","a","m">>, <<"a","l","a","b","a","m","a","-","a","m">>>>,
    <<<<"a","l","a","b","a","m","a","-","b","i","r","m","i","n","g","h","a","m">>, <<"a","l","a","b","a","m","a","-","b","i","r","m","i","n","g","h","a","m">>>>,
    <<<<"u","a","b">>, <<"a","l","a","b","a","m","a","-","b","i","r","m","i","n","g","h","a","m">>>>,
    <<<<"a","l","a","b","a","m","a","-","s","t","a","t","e">>, <<"a","l","a","b","a","m","a","-","s","t","a","t","e">>>>,
    <<<<"a","l","a","b","a","m","a">>, <<"a","l","a","b","a","m","a">>>>,
    <<<<"a","l","b","a","n","y","-","n","y">>, <<"a","l","b","a","n","y","-","n","y">>>>,
    <<<<"a","l","b","a","n","y">>, <<"a","l","b","a","n","y","-","n","y">>>>,
    <<<<"a","l","c","o","r","n","-","s","t","a","t","e">>, <<"a","l","c","o","r","n","-","s","t","a","t","e">>>>,
    <<<<"a","m","e","r","i","c","a","n">>, <<"a","m","e","r","i","c","a","n">>>>,
    <<<<"a","p","p","a","l","a","c","h","i","a","n","-","s","t","a","t","e">>, <<"a","p","p","a","l","a","c","h","i","a","n","-","s","t","a","t","e">>>>,
    <<<<"a","r","i","z","o","n","a","-","s","t","a","t","e">>, <<"a","r","i","z","o","n","a","-","s","t","a","t","e">>>>,
    <<<<"a","r","i","z","o","n","a">>, <<"a","r","i","z","o","n","a">>>>,
    <<<<"l","i","t","t","l","e","-","r","o","c","k">>, <<"a","r","k","a","n","s","a","s","-","l","i","t","t","l","e","-","r","o","c","k">>>>,
    <<<<"a","r","k","a","n","s","a","s","-","l","i","t","t","l","e","-","r","o","c","k">>, <<"a","r","k","a","n","s","a","s","-","l","i","t","t","l","e","-","r","o","c","k">>>>,
    <<<<"a","r","k","a","n","s","a","s","-","p","i","n","e","-","b","l","u","f","f">>, <<"a","r","k","a","n","s","a","s","-","p","i","n","e","-","b","l","u","f","f">>>>,
    <<<<"a","r","k","a","n","s","a","s","-","s","t","a","t","e">>, <<"a","r","k","a","n","s","a","s","-","s","t","a","t","e">>>>,
    <<<<"a","r","k","a","n","s","a","s">>, <<"a","r","k","a","n","s","a","s">>>>,
    <<<<"a","r","m","y">>, <<"a","r","m","y">>>>,
    <<<<"a","u","b","u","r","n">>, <<"a","u","b","u","r","n">>>>,
    <<<<"a","u","s","t","i","n","-","p","e","a","y">>, <<"a","u","s","t","i","n","-","p","e","a","y">>>>,
    <<<<"b","a","l","l","-","s","t","a","t","e">>, <<"b","a","l","l","-","s","t","a","t","e">>>>,
    <<<<"b","a","y","l","o","r">>, <<"b","a","y","l","o","r">>>>,
    <<<<"b","e","l","m","o","n","t">>, <<"b","e","l","m","o","n","t">>>>,
    <<<<"b","e","t","h","u","n","e","-","c","o","o","k","m","a","n">>, <<"b","e","t","h","u","n","e","-","c","o","o","k","m","a","n">>>>,
    <<<<"b","i","n","g","h","a","m","t","o","n">>, <<"b","i","n","g","h","a","m","t","o","n">>>>,
    <<<<"b","o","i","s","e","-","s","t","a","t","e">>, <<"b","o","i","s","e","-","s","t","a","t","e">>>>,
    <<<<"b","o","s","t","o","n","-","c","o","l","l","e","g","e">>, <<"b","o","s","t","o","n","-","c","o","l","l","e","g","e">>>>,
    <<<<"b","o","s","t","o","n","-","u","n","i","v","e","r","s","i","t","y">>, <<"b","o","s","t","o","n","-","u","n","i","v","e","r","s","i","t","y">>>>,
    <<<<"b","o","w","l","i","n","g","-","g","r","e","e","n","-","s","t","a","t","e">>, <<"b","o","w","l","i","n","g","-","g","r","e","e","n","-","s","t","a","t","e">>>>,
    <<<<"b","o","w","l","i","n","g","-","g","r","e","e","n">>, <<"b","o","w","l","i","n","g","-","g","r","e","e","n","-","s","t","a","t","e">>>>,
    <<<<"b","r","a","d","l","e","y">>, <<"b","r","a","d","l","e","y">>>>,
    <<<<"b","y","u">>, <<"b","r","i","g","h","a","m","-","y","o","u","n","g">>>>,
    <<<<"b","r","i","g","h","a","m","-","y","o","u","n","g">>, <<"b","r","i","g","h","a","m","-","y","o","u","n","g">>>>,
    <<<<"b","r","o","w","n">>, <<"b","r","o","w","n">>>>,
    <<<<"b","r","y","a","n","t">>, <<"b","r","y","a","n","t">>>>,
    <<<<"b","u","c","k","n","e","l","l">>, <<"b","u","c","k","n","e","l","l">>>>,
    <<<<"b","u","f","f","a","l","o">>, <<"b","u","f","f","a","l","o">>>>,
    <<<<"b","u","t","l","e","r">>, <<"b","u","t","l","e","r">>>>,
    <<<<"c","a","l","i","f","o","r","n","i","a","-","b","a","p","t","i","s","t">>, <<"c","a","l","i","f","o","r","n","i","a","-","b","a","p","t","i","s","t">>>>,
    <<<<"c","a","l","-","b","a","p","t","i","s","t">>, <<"c","a","l","i","f","o","r","n","i","a","-","b","a","p","t","i","s","t">>>>,
    <<<<"c","a","l","-","p","o","l","y">>, <<"c","a","l","-","p","o","l","y">>>>,
    <<<<"c","a","l","-","s","t","a","t","e","-","b","a","k","e","r","s","f","i","e","l","d">>, <<"c","a","l","-","s","t","a","t","e","-","b","a","k","e","r","s","f","i","e","l","d">>>>,
    <<<<"c","a","l","-","s","t","-","b","a","k","e","r","s","f","i","e","l","d">>, <<"c","a","l","-","s","t","a","t","e","-","b","a","k","e","r","s","f","i","e","l","d">>>>,
    <<<<"c","a","l","-","s","t","a","t","e","-","f","u","l","l","e","r","t","o","n">>, <<"c","a","l","-","s","t","a","t","e","-","f","u","l","l","e","r","t","o","n">>>>,
    <<<<"c","a","l","-","s","t","-","f","u","l","l","e","r","t","o","n">>, <<"c","a","l","-","s","t","a","t","e","-","f","u","l","l","e","r","t","o","n">>>>,
    <<<<"c","a","l","-","s","t","a","t","e","-","n","o","r","t","h","r","i","d","g","e">>, <<"c","a","l","-","s","t","a","t","e","-","n","o","r","t","h","r","i","d","g","e">>>>,
    <<<<"c","a","l","-","s","t","-","n","o","r","t","h","r","i","d","g","e">>, <<"c","a","l","-","s","t","a","t","e","-","n","o","r","t","h","r","i","d","g","e">>>>,
    <<<<"c","a","l","-","s","t","a","t","e","-","l","o","n","g","-","b","e","a","c","h">>, <<"l","o","n","g","-","b","e","a","c","h","-","s","t","a","t","e">>>>,
    <<<<"c","a","l","i","f","o","r","n","i","a","-","d","a","v","i","s">>, <<"c","a","l","i","f","o","r","n","i","a","-","d","a","v","i","s">>>>,
    <<<<"c","a","l","i","f","o","r","n","i","a","-","i","r","v","i","n","e">>, <<"c","a","l","i","f","o","r","n","i","a","-","i","r","v","i","n","e">>>>,
    <<<<"c","a","l","i","f","o","r","n","i","a","-","r","i","v","e","r","s","i","d","e">>, <<"c","a","l","i","f","o","r","n","i","a","-","r","i","v","e","r","s","i","d","e">>>>,
    <<<<"c","a","l","i","f","o","r","n","i","a","-","s","a","n","t","a","-","b","a","r","b","a","r","a">>, <<"c","a","l","i","f","o","r","n","i","a","-","s","a","n","t","a","-","b","a","r","b","a","r","a">>>>,
    <<<<"u","n","i","v","e","r","s","i","t","y","-","o","f","-","c","a","l","i","f","o","r","n","i","a">>, <<"c","a","l","i","f","o","r","n","i","a">>>>,
    <<<<"c","a","l","i","f","o","r","n","i","a">>, <<"c","a","l","i","f","o","r","n","i","a">>>>,
    <<<<"c","a","m","p","b","e","l","l">>, <<"c","a","m","p","b","e","l","l">>>>,
    <<<<"c","a","n","i","s","i","u","s">>, <<"c","a","n","i","s","i","u","s">>>>,
    <<<<"c","e","n","t","e","n","a","r","y">>, <<"c","e","n","t","e","n","a","r","y","-","l","a">>>>,
    <<<<"c","e","n","t","e","n","a","r","y"," ","(","l","a",")">>, <<"c","e","n","t","e","n","a","r","y","-","l","a">>>>,
    <<<<"c","e","n","t","e","n","a","r","y","-","l","a">>, <<"c","e","n","t","e","n","a","r","y","-","l","a">>>>,
    <<<<"c","e","n","t","r","a","l","-","a","r","k","a","n","s","a","s">>, <<"c","e","n","t","r","a","l","-","a","r","k","a","n","s","a","s">>>>,
    <<<<"c","e","n","t","r","a","l","-","c","o","n","n","e","c","t","i","c","u","t","-","s","t","a","t","e">>, <<"c","e","n","t","r","a","l","-","c","o","n","n","e","c","t","i","c","u","t","-","s","t","a","t","e">>>>,
    <<<<"c","e","n","t","r","a","l","-","c","o","n","n","e","c","t","i","c","u","t">>, <<"c","e","n","t","r","a","l","-","c","o","n","n","e","c","t","i","c","u","t","-","s","t","a","t","e">>>>,
    <<<<"c","e","n","t","r","a","l","-","f","l","o","r","i","d","a">>, <<"c","e","n","t","r","a","l","-","f","l","o","r","i","d","a">>>>,
    <<<<"u","c","f">>, <<"c","e","n","t","r","a","l","-","f","l","o","r","i","d","a">>>>,
    <<<<"c","e","n","t","r","a","l","-","m","i","c","h","i","g","a","n">>, <<"c","e","n","t","r","a","l","-","m","i","c","h","i","g","a","n">>>>,
    <<<<"c","h","a","r","l","e","s","t","o","n","-","s","o","u","t","h","e","r","n">>, <<"c","h","a","r","l","e","s","t","o","n","-","s","o","u","t","h","e","r","n">>>>,
    <<<<"c","h","a","r","l","o","t","t","e">>, <<"c","h","a","r","l","o","t","t","e">>>>,
    <<<<"c","h","a","t","t","a","n","o","o","g","a">>, <<"c","h","a","t","t","a","n","o","o","g","a">>>>,
    <<<<"c","h","i","c","a","g","o","-","s","t","a","t","e">>, <<"c","h","i","c","a","g","o","-","s","t","a","t","e">>>>,
    <<<<"c","i","n","c","i","n","n","a","t","i">>, <<"c","i","n","c","i","n","n","a","t","i">>>>,
    <<<<"c","i","t","a","d","e","l">>, <<"c","i","t","a","d","e","l">>>>,
    <<<<"t","h","e","-","c","i","t","a","d","e","l">>, <<"c","i","t","a","d","e","l">>>>,
    <<<<"c","l","e","m","s","o","n">>, <<"c","l","e","m","s","o","n">>>>,
    <<<<"c","l","e","v","e","l","a","n","d","-","s","t","a","t","e">>, <<"c","l","e","v","e","l","a","n","d","-","s","t","a","t","e">>>>,
    <<<<"c","o","a","s","t","a","l","-","c","a","r","o","l","i","n","a">>, <<"c","o","a","s","t","a","l","-","c","a","r","o","l","i","n","a">>>>,
    <<<<"c","o","l","g","a","t","e">>, <<"c","o","l","g","a","t","e">>>>,
    <<<<"c","h","a","r","l","e","s","t","o","n">>, <<"c","o","l","l","e","g","e","-","o","f","-","c","h","a","r","l","e","s","t","o","n">>>>,
    <<<<"c","o","l","l","e","g","e","-","o","f","-","c","h","a","r","l","e","s","t","o","n">>, <<"c","o","l","l","e","g","e","-","o","f","-","c","h","a","r","l","e","s","t","o","n">>>>,
    <<<<"c","o","l","o","r","a","d","o","-","s","t","a","t","e">>, <<"c","o","l","o","r","a","d","o","-","s","t","a","t","e">>>>,
    <<<<"c","o","l","o","r","a","d","o">>, <<"c","o","l","o","r","a","d","o">>>>,
    <<<<"c","o","l","u","m","b","i","a">>, <<"c","o","l","u","m","b","i","a">>>>,
    <<<<"c","o","n","n","e","c","t","i","c","u","t">>, <<"c","o","n","n","e","c","t","i","c","u","t">>>>,
    <<<<"c","o","p","p","i","n","-","s","t","a","t","e">>, <<"c","o","p","p","i","n","-","s","t","a","t","e">>>>,
    <<<<"c","o","r","n","e","l","l">>, <<"c","o","r","n","e","l","l">>>>,
    <<<<"c","r","e","i","g","h","t","o","n">>, <<"c","r","e","i","g","h","t","o","n">>>>,
    <<<<"d","a","r","t","m","o","u","t","h">>, <<"d","a","r","t","m","o","u","t","h">>>>,
    <<<<"d","a","v","i","d","s","o","n">>, <<"d","a","v","i","d","s","o","n">>>>,
    <<<<"d","a","y","t","o","n">>, <<"d","a","y","t","o","n">>>>,
    <<<<"d","e","l","a","w","a","r","e","-","s","t","a","t","e">>, <<"d","e","l","a","w","a","r","e","-","s","t","a","t","e">>>>,
    <<<<"d","e","l","a","w","a","r","e">>, <<"d","e","l","a","w","a","r","e">>>>,
    <<<<"d","e","n","v","e","r">>, <<"d","e","n","v","e","r">>>>,
    <<<<"d","e","p","a","u","l">>, <<"d","e","p","a","u","l">>>>,
    <<<<"d","e","t","r","o","i","t","-","m","e","r","c","y">>, <<"d","e","t","r","o","i","t","-","m","e","r","c","y">>>>,
    <<<<"d","e","t","r","o","i","t">>, <<"d","e","t","r","o","i","t","-","m","e","r","c","y">>>>,
    <<<<"d","r","a","k","e">>, <<"d","r","a","k","e">>>>,
    <<<<"d","r","e","x","e","l">>, <<"d","r","e","x","e","l">>>>,
    <<<<"d","u","k","e">>, <<"d","u","k","e">>>>,
    <<<<"d","u","q","u","e","s","n","e">>, <<"d","u","q","u","e","s","n","e">>>>,
    <<<<"e","a","s","t","-","c","a","r","o","l","i","n","a">>, <<"e","a","s","t","-","c","a","r","o","l","i","n","a">>>>,
    <<<<"e","a","s","t","-","t","e","n","n","e","s","s","e","e","-","s","t","a","t","e">>, <<"e","a","s","t","-","t","e","n","n","e","s","s","e","e","-","s","t","a","t","e">>>>,
    <<<<"e","t","s","u">>, <<"e","a","s","t","-","t","e","n","n","e","s","s","e","e","-","s","t","a","t","e">>>>,
    <<<<"e","a","s","t","e","r","n","-","i","l","l","i","n","o","i","s">>, <<"e","a","s","t","e","r","n","-","i","l","l","i","n","o","i","s">>>>,
    <<<<"e","a","s","t","e","r","n","-","k","e","n","t","u","c","k","y">>, <<"e","a","s","t","e","r","n","-","k","e","n","t","u","c","k","y">>>>,
    <<<<"e","a","s","t","e","r","n","-","m","i","c","h","i","g","a","n">>, <<"e","a","s","t","e","r","n","-","m","i","c","h","i","g","a","n">>>>,
    <<<<"e","a","s","t","e","r","n","-","w","a","s","h","i","n","g","t","o","n">>, <<"e","a","s","t","e","r","n","-","w","a","s","h","i","n","g","t","o","n">>>>,
    <<<<"e","l","o","n">>, <<"e","l","o","n">>>>,
    <<<<"e","v","a","n","s","v","i","l","l","e">>, <<"e","v","a","n","s","v","i","l","l","e">>>>,
    <<<<"f","a","i","r","f","i","e","l","d">>, <<"f","a","i","r","f","i","e","l","d">>>>,
    <<<<"f","a","i","r","l","e","i","g","h","-","d","i","c","k","i","n","s","o","n">>, <<"f","a","i","r","l","e","i","g","h","-","d","i","c","k","i","n","s","o","n">>>>,
    <<<<"f","l","o","r","i","d","a","-","a","m">>, <<"f","l","o","r","i","d","a","-","a","m">>>>,
    <<<<"f","l","o","r","i","d","a","-","a","t","l","a","n","t","i","c">>, <<"f","l","o","r","i","d","a","-","a","t","l","a","n","t","i","c">>>>,
    <<<<"f","a","u">>, <<"f","l","o","r","i","d","a","-","a","t","l","a","n","t","i","c">>>>,
    <<<<"f","l","o","r","i","d","a","-","g","u","l","f","-","c","o","a","s","t">>, <<"f","l","o","r","i","d","a","-","g","u","l","f","-","c","o","a","s","t">>>>,
    <<<<"f","g","c","u">>, <<"f","l","o","r","i","d","a","-","g","u","l","f","-","c","o","a","s","t">>>>,
    <<<<"f","l","o","r","i","d","a","-","i","n","t","e","r","n","a","t","i","o","n","a","l">>, <<"f","l","o","r","i","d","a","-","i","n","t","e","r","n","a","t","i","o","n","a","l">>>>,
    <<<<"f","i","u">>, <<"f","l","o","r","i","d","a","-","i","n","t","e","r","n","a","t","i","o","n","a","l">>>>,
    <<<<"f","l","o","r","i","d","a","-","s","t","a","t","e">>, <<"f","l","o","r","i","d","a","-","s","t","a","t","e">>>>,
    <<<<"f","l","o","r","i","d","a">>, <<"f","l","o","r","i","d","a">>>>,
    <<<<"f","o","r","d","h","a","m">>, <<"f","o","r","d","h","a","m">>>>,
    <<<<"f","r","e","s","n","o","-","s","t","a","t","e">>, <<"f","r","e","s","n","o","-","s","t","a","t","e">>>>,
    <<<<"f","u","r","m","a","n">>, <<"f","u","r","m","a","n">>>>,
    <<<<"g","a","r","d","n","e","r","-","w","e","b","b">>, <<"g","a","r","d","n","e","r","-","w","e","b","b">>>>,
    <<<<"g","e","o","r","g","e","-","m","a","s","o","n">>, <<"g","e","o","r","g","e","-","m","a","s","o","n">>>>,
    <<<<"g","e","o","r","g","e","-","w","a","s","h","i","n","g","t","o","n">>, <<"g","e","o","r","g","e","-","w","a","s","h","i","n","g","t","o","n">>>>,
    <<<<"g","e","o","r","g","e","t","o","w","n">>, <<"g","e","o","r","g","e","t","o","w","n">>>>,
    <<<<"g","e","o","r","g","i","a","-","s","o","u","t","h","e","r","n">>, <<"g","e","o","r","g","i","a","-","s","o","u","t","h","e","r","n">>>>,
    <<<<"g","e","o","r","g","i","a","-","s","t","a","t","e">>, <<"g","e","o","r","g","i","a","-","s","t","a","t","e">>>>,
    <<<<"g","e","o","r","g","i","a","-","t","e","c","h">>, <<"g","e","o","r","g","i","a","-","t","e","c","h">>>>,
    <<<<"g","e","o","r","g","i","a">>, <<"g","e","o","r","g","i","a">>>>,
    <<<<"g","o","n","z","a","g","a">>, <<"g","o","n","z","a","g","a">>>>,
    <<<<"g","r","a","m","b","l","i","n","g","-","s","t","a","t","e">>, <<"g","r","a","m","b","l","i","n","g">>>>,
    <<<<"g","r","a","m","b","l","i","n","g">>, <<"g","r","a","m","b","l","i","n","g">>>>,
    <<<<"g","r","a","n","d","-","c","a","n","y","o","n">>, <<"g","r","a","n","d","-","c","a","n","y","o","n">>>>,
    <<<<"g","r","e","e","n","-","b","a","y">>, <<"g","r","e","e","n","-","b","a","y">>>>,
    <<<<"h","a","m","p","t","o","n">>, <<"h","a","m","p","t","o","n">>>>,
    <<<<"h","a","r","t","f","o","r","d">>, <<"h","a","r","t","f","o","r","d">>>>,
    <<<<"h","a","r","v","a","r","d">>, <<"h","a","r","v","a","r","d">>>>,
    <<<<"h","a","w","a","i","i">>, <<"h","a","w","a","i","i">>>>,
    <<<<"h","i","g","h","-","p","o","i","n","t">>, <<"h","i","g","h","-","p","o","i","n","t">>>>,
    <<<<"h","o","f","s","t","r","a">>, <<"h","o","f","s","t","r","a">>>>,
    <<<<"h","o","l","y","-","c","r","o","s","s">>, <<"h","o","l","y","-","c","r","o","s","s">>>>,
    <<<<"h","o","u","s","t","o","n","-","b","a","p","t","i","s","t">>, <<"h","o","u","s","t","o","n","-","b","a","p","t","i","s","t">>>>,
    <<<<"h","o","u","s","t","o","n">>, <<"h","o","u","s","t","o","n">>>>,
    <<<<"h","o","w","a","r","d">>, <<"h","o","w","a","r","d">>>>,
    <<<<"i","d","a","h","o","-","s","t","a","t","e">>, <<"i","d","a","h","o","-","s","t","a","t","e">>>>,
    <<<<"i","d","a","h","o">>, <<"i","d","a","h","o">>>>,
    <<<<"u","i","c">>, <<"i","l","l","i","n","o","i","s","-","c","h","i","c","a","g","o">>>>,
    <<<<"i","l","l","i","n","o","i","s","-","c","h","i","c","a","g","o">>, <<"i","l","l","i","n","o","i","s","-","c","h","i","c","a","g","o">>>>,
    <<<<"i","l","l","i","n","o","i","s","-","s","t","a","t","e">>, <<"i","l","l","i","n","o","i","s","-","s","t","a","t","e">>>>,
    <<<<"i","l","l","i","n","o","i","s">>, <<"i","l","l","i","n","o","i","s">>>>,
    <<<<"i","n","c","a","r","n","a","t","e","-","w","o","r","d">>, <<"i","n","c","a","r","n","a","t","e","-","w","o","r","d">>>>,
    <<<<"i","n","d","i","a","n","a","-","s","t","a","t","e">>, <<"i","n","d","i","a","n","a","-","s","t","a","t","e">>>>,
    <<<<"i","n","d","i","a","n","a">>, <<"i","n","d","i","a","n","a">>>>,
    <<<<"i","o","n","a">>, <<"i","o","n","a">>>>,
    <<<<"i","o","w","a","-","s","t","a","t","e">>, <<"i","o","w","a","-","s","t","a","t","e">>>>,
    <<<<"i","o","w","a">>, <<"i","o","w","a">>>>,
    <<<<"p","u","r","d","u","e","-","f","o","r","t","-","w","a","y","n","e">>, <<"i","p","f","w">>>>,
    <<<<"f","o","r","t","-","w","a","y","n","e">>, <<"i","p","f","w">>>>,
    <<<<"i","p","f","w">>, <<"i","p","f","w">>>>,
    <<<<"i","u","p","u","i">>, <<"i","u","p","u","i">>>>,
    <<<<"j","a","c","k","s","o","n","-","s","t","a","t","e">>, <<"j","a","c","k","s","o","n","-","s","t","a","t","e">>>>,
    <<<<"j","a","c","k","s","o","n","v","i","l","l","e","-","s","t","a","t","e">>, <<"j","a","c","k","s","o","n","v","i","l","l","e","-","s","t","a","t","e">>>>,
    <<<<"j","a","c","k","s","o","n","v","i","l","l","e">>, <<"j","a","c","k","s","o","n","v","i","l","l","e">>>>,
    <<<<"j","a","m","e","s","-","m","a","d","i","s","o","n">>, <<"j","a","m","e","s","-","m","a","d","i","s","o","n">>>>,
    <<<<"k","a","n","s","a","s","-","s","t","a","t","e">>, <<"k","a","n","s","a","s","-","s","t","a","t","e">>>>,
    <<<<"k","a","n","s","a","s">>, <<"k","a","n","s","a","s">>>>,
    <<<<"k","e","n","n","e","s","a","w","-","s","t","a","t","e">>, <<"k","e","n","n","e","s","a","w","-","s","t","a","t","e">>>>,
    <<<<"k","e","n","t","-","s","t","a","t","e">>, <<"k","e","n","t","-","s","t","a","t","e">>>>,
    <<<<"k","e","n","t","u","c","k","y">>, <<"k","e","n","t","u","c","k","y">>>>,
    <<<<"l","a","-","s","a","l","l","e">>, <<"l","a","-","s","a","l","l","e">>>>,
    <<<<"l","a","f","a","y","e","t","t","e">>, <<"l","a","f","a","y","e","t","t","e">>>>,
    <<<<"l","a","m","a","r">>, <<"l","a","m","a","r">>>>,
    <<<<"l","e","h","i","g","h">>, <<"l","e","h","i","g","h">>>>,
    <<<<"l","i","b","e","r","t","y">>, <<"l","i","b","e","r","t","y">>>>,
    <<<<"l","i","p","s","c","o","m","b">>, <<"l","i","p","s","c","o","m","b">>>>,
    <<<<"l","o","n","g","-","b","e","a","c","h","-","s","t","a","t","e">>, <<"l","o","n","g","-","b","e","a","c","h","-","s","t","a","t","e">>>>,
    <<<<"l","o","n","g","-","i","s","l","a","n","d","-","u","n","i","v","e","r","s","i","t","y">>, <<"l","o","n","g","-","i","s","l","a","n","d","-","u","n","i","v","e","r","s","i","t","y">>>>,
    <<<<"l","i","u">>, <<"l","o","n","g","-","i","s","l","a","n","d","-","u","n","i","v","e","r","s","i","t","y">>>>,
    <<<<"l","i","u","-","b","r","o","o","k","l","y","n">>, <<"l","o","n","g","-","i","s","l","a","n","d","-","u","n","i","v","e","r","s","i","t","y">>>>,
    <<<<"l","o","n","g","w","o","o","d">>, <<"l","o","n","g","w","o","o","d">>>>,
    <<<<"l","o","u","i","s","i","a","n","a">>, <<"l","o","u","i","s","i","a","n","a","-","l","a","f","a","y","e","t","t","e">>>>,
    <<<<"l","o","u","i","s","i","a","n","a","-","l","a","f","a","y","e","t","t","e">>, <<"l","o","u","i","s","i","a","n","a","-","l","a","f","a","y","e","t","t","e">>>>,
    <<<<"l","o","u","i","s","i","a","n","a","-","m","o","n","r","o","e">>, <<"l","o","u","i","s","i","a","n","a","-","m","o","n","r","o","e">>>>,
    <<<<"l","o","u","i","s","i","a","n","a","-","s","t","a","t","e">>, <<"l","o","u","i","s","i","a","n","a","-","s","t","a","t","e">>>>,
    <<<<"l","s","u">>, <<"l","o","u","i","s","i","a","n","a","-","s","t","a","t","e">>>>,
    <<<<"l","o","u","i","s","i","a","n","a","-","t","e","c","h">>, <<"l","o","u","i","s","i","a","n","a","-","t","e","c","h">>>>,
    <<<<"l","o","u","i","s","v","i","l","l","e">>, <<"l","o","u","i","s","v","i","l","l","e">>>>,
    <<<<"l","o","y","o","l","a","-","i","l">>, <<"l","o","y","o","l","a","-","i","l">>>>,
    <<<<"l","o","y","o","l","a","-","c","h","i","c","a","g","o">>, <<"l","o","y","o","l","a","-","i","l">>>>,
    <<<<"l","o","y","o","l","a","-","m","a","r","y","m","o","u","n","t">>, <<"l","o","y","o","l","a","-","m","a","r","y","m","o","u","n","t">>>>,
    <<<<"l","o","y","o","l","a","-","m","d">>, <<"l","o","y","o","l","a","-","m","d">>>>,
    <<<<"m","a","i","n","e">>, <<"m","a","i","n","e">>>>,
    <<<<"m","a","n","h","a","t","t","a","n">>, <<"m","a","n","h","a","t","t","a","n">>>>,
    <<<<"m","a","r","i","s","t">>, <<"m","a","r","i","s","t">>>>,
    <<<<"m","a","r","q","u","e","t","t","e">>, <<"m","a","r","q","u","e","t","t","e">>>>,
    <<<<"m","a","r","s","h","a","l","l">>, <<"m","a","r","s","h","a","l","l">>>>,
    <<<<"m","a","r","y","l","a","n","d","-","b","a","l","t","i","m","o","r","e","-","c","o","u","n","t","y">>, <<"m","a","r","y","l","a","n","d","-","b","a","l","t","i","m","o","r","e","-","c","o","u","n","t","y">>>>,
    <<<<"u","m","b","c">>, <<"m","a","r","y","l","a","n","d","-","b","a","l","t","i","m","o","r","e","-","c","o","u","n","t","y">>>>,
    <<<<"m","a","r","y","l","a","n","d","-","e","a","s","t","e","r","n","-","s","h","o","r","e">>, <<"m","a","r","y","l","a","n","d","-","e","a","s","t","e","r","n","-","s","h","o","r","e">>>>,
    <<<<"m","a","r","y","l","a","n","d">>, <<"m","a","r","y","l","a","n","d">>>>,
    <<<<"m","a","s","s","a","c","h","u","s","e","t","t","s","-","l","o","w","e","l","l">>, <<"m","a","s","s","a","c","h","u","s","e","t","t","s","-","l","o","w","e","l","l">>>>,
    <<<<"u","m","a","s","s","-","l","o","w","e","l","l">>, <<"m","a","s","s","a","c","h","u","s","e","t","t","s","-","l","o","w","e","l","l">>>>,
    <<<<"m","a","s","s","a","c","h","u","s","e","t","t","s">>, <<"m","a","s","s","a","c","h","u","s","e","t","t","s">>>>,
    <<<<"u","m","a","s","s">>, <<"m","a","s","s","a","c","h","u","s","e","t","t","s">>>>,
    <<<<"m","c","n","e","e","s","e","-","s","t","a","t","e">>, <<"m","c","n","e","e","s","e","-","s","t","a","t","e">>>>,
    <<<<"m","e","m","p","h","i","s">>, <<"m","e","m","p","h","i","s">>>>,
    <<<<"m","e","r","c","e","r">>, <<"m","e","r","c","e","r">>>>,
    <<<<"m","i","a","m","i","-","f","l">>, <<"m","i","a","m","i","-","f","l">>>>,
    <<<<"m","i","a","m","i","-","o","h">>, <<"m","i","a","m","i","-","o","h">>>>,
    <<<<"m","i","c","h","i","g","a","n","-","s","t","a","t","e">>, <<"m","i","c","h","i","g","a","n","-","s","t","a","t","e">>>>,
    <<<<"m","i","c","h","i","g","a","n">>, <<"m","i","c","h","i","g","a","n">>>>,
    <<<<"m","i","d","d","l","e","-","t","e","n","n","e","s","s","e","e">>, <<"m","i","d","d","l","e","-","t","e","n","n","e","s","s","e","e">>>>,
    <<<<"m","i","l","w","a","u","k","e","e">>, <<"m","i","l","w","a","u","k","e","e">>>>,
    <<<<"m","i","n","n","e","s","o","t","a">>, <<"m","i","n","n","e","s","o","t","a">>>>,
    <<<<"m","i","s","s","i","s","s","i","p","p","i","-","s","t","a","t","e">>, <<"m","i","s","s","i","s","s","i","p","p","i","-","s","t","a","t","e">>>>,
    <<<<"m","i","s","s","i","s","s","i","p","p","i","-","v","a","l","l","e","y","-","s","t","a","t","e">>, <<"m","i","s","s","i","s","s","i","p","p","i","-","v","a","l","l","e","y","-","s","t","a","t","e">>>>,
    <<<<"m","i","s","s","i","s","s","i","p","p","i">>, <<"m","i","s","s","i","s","s","i","p","p","i">>>>,
    <<<<"o","l","e","-","m","i","s","s">>, <<"m","i","s","s","i","s","s","i","p","p","i">>>>,
    <<<<"m","i","s","s","o","u","r","i","-","k","a","n","s","a","s","-","c","i","t","y">>, <<"m","i","s","s","o","u","r","i","-","k","a","n","s","a","s","-","c","i","t","y">>>>,
    <<<<"u","m","k","c">>, <<"m","i","s","s","o","u","r","i","-","k","a","n","s","a","s","-","c","i","t","y">>>>,
    <<<<"m","i","s","s","o","u","r","i","-","s","t","a","t","e">>, <<"m","i","s","s","o","u","r","i","-","s","t","a","t","e">>>>,
    <<<<"m","i","s","s","o","u","r","i">>, <<"m","i","s","s","o","u","r","i">>>>,
    <<<<"m","o","n","m","o","u","t","h">>, <<"m","o","n","m","o","u","t","h">>>>,
    <<<<"m","o","n","t","a","n","a","-","s","t","a","t","e">>, <<"m","o","n","t","a","n","a","-","s","t","a","t","e">>>>,
    <<<<"m","o","n","t","a","n","a">>, <<"m","o","n","t","a","n","a">>>>,
    <<<<"m","o","r","e","h","e","a","d","-","s","t","a","t","e">>, <<"m","o","r","e","h","e","a","d","-","s","t","a","t","e">>>>,
    <<<<"m","o","r","g","a","n","-","s","t","a","t","e">>, <<"m","o","r","g","a","n","-","s","t","a","t","e">>>>,
    <<<<"m","o","u","n","t","-","s","t","-","m","a","r","y","s">>, <<"m","o","u","n","t","-","s","t","-","m","a","r","y","s">>>>,
    <<<<"m","u","r","r","a","y","-","s","t","a","t","e">>, <<"m","u","r","r","a","y","-","s","t","a","t","e">>>>,
    <<<<"n","a","v","y">>, <<"n","a","v","y">>>>,
    <<<<"o","m","a","h","a">>, <<"n","e","b","r","a","s","k","a","-","o","m","a","h","a">>>>,
    <<<<"n","e","b","r","a","s","k","a","-","o","m","a","h","a">>, <<"n","e","b","r","a","s","k","a","-","o","m","a","h","a">>>>,
    <<<<"n","e","b","r","a","s","k","a">>, <<"n","e","b","r","a","s","k","a">>>>,
    <<<<"n","e","v","a","d","a","-","l","a","s","-","v","e","g","a","s">>, <<"n","e","v","a","d","a","-","l","a","s","-","v","e","g","a","s">>>>,
    <<<<"u","n","l","v">>, <<"n","e","v","a","d","a","-","l","a","s","-","v","e","g","a","s">>>>,
    <<<<"n","e","v","a","d","a">>, <<"n","e","v","a","d","a">>>>,
    <<<<"n","e","w","-","h","a","m","p","s","h","i","r","e">>, <<"n","e","w","-","h","a","m","p","s","h","i","r","e">>>>,
    <<<<"n","e","w","-","m","e","x","i","c","o","-","s","t","a","t","e">>, <<"n","e","w","-","m","e","x","i","c","o","-","s","t","a","t","e">>>>,
    <<<<"n","e","w","-","m","e","x","i","c","o">>, <<"n","e","w","-","m","e","x","i","c","o">>>>,
    <<<<"n","e","w","-","o","r","l","e","a","n","s">>, <<"n","e","w","-","o","r","l","e","a","n","s">>>>,
    <<<<"n","i","a","g","a","r","a">>, <<"n","i","a","g","a","r","a">>>>,
    <<<<"n","i","c","h","o","l","l","s","-","s","t","a","t","e">>, <<"n","i","c","h","o","l","l","s","-","s","t","a","t","e">>>>,
    <<<<"n","j","i","t">>, <<"n","j","i","t">>>>,
    <<<<"n","o","r","f","o","l","k","-","s","t","a","t","e">>, <<"n","o","r","f","o","l","k","-","s","t","a","t","e">>>>,
    <<<<"n","o","r","t","h","-","a","l","a","b","a","m","a">>, <<"n","o","r","t","h","-","a","l","a","b","a","m","a">>>>,
    <<<<"u","n","c","-","a","s","h","e","v","i","l","l","e">>, <<"n","o","r","t","h","-","c","a","r","o","l","i","n","a","-","a","s","h","e","v","i","l","l","e">>>>,
    <<<<"n","o","r","t","h","-","c","a","r","o","l","i","n","a","-","a","s","h","e","v","i","l","l","e">>, <<"n","o","r","t","h","-","c","a","r","o","l","i","n","a","-","a","s","h","e","v","i","l","l","e">>>>,
    <<<<"n","o","r","t","h","-","c","a","r","o","l","i","n","a","-","a","t">>, <<"n","o","r","t","h","-","c","a","r","o","l","i","n","a","-","a","t">>>>,
    <<<<"n","o","r","t","h","-","c","a","r","o","l","i","n","a","-","c","e","n","t","r","a","l">>, <<"n","o","r","t","h","-","c","a","r","o","l","i","n","a","-","c","e","n","t","r","a","l">>>>,
    <<<<"n","o","r","t","h","-","c","a","r","o","l","i","n","a","-","g","r","e","e","n","s","b","o","r","o">>, <<"n","o","r","t","h","-","c","a","r","o","l","i","n","a","-","g","r","e","e","n","s","b","o","r","o">>>>,
    <<<<"u","n","c","-","g","r","e","e","n","s","b","o","r","o">>, <<"n","o","r","t","h","-","c","a","r","o","l","i","n","a","-","g","r","e","e","n","s","b","o","r","o">>>>,
    <<<<"n","o","r","t","h","-","c","a","r","o","l","i","n","a","-","s","t","a","t","e">>, <<"n","o","r","t","h","-","c","a","r","o","l","i","n","a","-","s","t","a","t","e">>>>,
    <<<<"n",".","c",".","-","s","t","a","t","e">>, <<"n","o","r","t","h","-","c","a","r","o","l","i","n","a","-","s","t","a","t","e">>>>,
    <<<<"n","c","-","s","t","a","t","e">>, <<"n","o","r","t","h","-","c","a","r","o","l","i","n","a","-","s","t","a","t","e">>>>,
    <<<<"n","o","r","t","h","-","c","a","r","o","l","i","n","a","-","w","i","l","m","i","n","g","t","o","n">>, <<"n","o","r","t","h","-","c","a","r","o","l","i","n","a","-","w","i","l","m","i","n","g","t","o","n">>>>,
    <<<<"u","n","c","-","w","i","l","m","i","n","g","t","o","n">>, <<"n","o","r","t","h","-","c","a","r","o","l","i","n","a","-","w","i","l","m","i","n","g","t","o","n">>>>,
    <<<<"n","o","r","t","h","-","c","a","r","o","l","i","n","a">>, <<"n","o","r","t","h","-","c","a","r","o","l","i","n","a">>>>,
    <<<<"u","n","c">>, <<"n","o","r","t","h","-","c","a","r","o","l","i","n","a">>>>,
    <<<<"n","o","r","t","h","-","d","a","k","o","t","a","-","s","t","a","t","e">>, <<"n","o","r","t","h","-","d","a","k","o","t","a","-","s","t","a","t","e">>>>,
    <<<<"n","o","r","t","h","-","d","a","k","o","t","a">>, <<"n","o","r","t","h","-","d","a","k","o","t","a">>>>,
    <<<<"n","o","r","t","h","-","f","l","o","r","i","d","a">>, <<"n","o","r","t","h","-","f","l","o","r","i","d","a">>>>,
    <<<<"n","o","r","t","h","-","t","e","x","a","s">>, <<"n","o","r","t","h","-","t","e","x","a","s">>>>,
    <<<<"n","o","r","t","h","e","a","s","t","e","r","n">>, <<"n","o","r","t","h","e","a","s","t","e","r","n">>>>,
    <<<<"n","o","r","t","h","e","r","n","-","a","r","i","z","o","n","a">>, <<"n","o","r","t","h","e","r","n","-","a","r","i","z","o","n","a">>>>,
    <<<<"n","o","r","t","h","e","r","n","-","c","o","l","o","r","a","d","o">>, <<"n","o","r","t","h","e","r","n","-","c","o","l","o","r","a","d","o">>>>,
    <<<<"n","o","r","t","h","e","r","n","-","i","l","l","i","n","o","i","s">>, <<"n","o","r","t","h","e","r","n","-","i","l","l","i","n","o","i","s">>>>,
    <<<<"n","o","r","t","h","e","r","n","-","i","o","w","a">>, <<"n","o","r","t","h","e","r","n","-","i","o","w","a">>>>,
    <<<<"n","o","r","t","h","e","r","n","-","k","e","n","t","u","c","k","y">>, <<"n","o","r","t","h","e","r","n","-","k","e","n","t","u","c","k","y">>>>,
    <<<<"n","o","r","t","h","w","e","s","t","e","r","n","-","s","t","a","t","e">>, <<"n","o","r","t","h","w","e","s","t","e","r","n","-","s","t","a","t","e">>>>,
    <<<<"n","o","r","t","h","w","e","s","t","e","r","n">>, <<"n","o","r","t","h","w","e","s","t","e","r","n">>>>,
    <<<<"n","o","t","r","e","-","d","a","m","e">>, <<"n","o","t","r","e","-","d","a","m","e">>>>,
    <<<<"o","a","k","l","a","n","d">>, <<"o","a","k","l","a","n","d">>>>,
    <<<<"o","h","i","o","-","s","t","a","t","e">>, <<"o","h","i","o","-","s","t","a","t","e">>>>,
    <<<<"o","h","i","o">>, <<"o","h","i","o">>>>,
    <<<<"o","k","l","a","h","o","m","a","-","s","t","a","t","e">>, <<"o","k","l","a","h","o","m","a","-","s","t","a","t","e">>>>,
    <<<<"o","k","l","a","h","o","m","a">>, <<"o","k","l","a","h","o","m","a">>>>,
    <<<<"o","l","d","-","d","o","m","i","n","i","o","n">>, <<"o","l","d","-","d","o","m","i","n","i","o","n">>>>,
    <<<<"o","r","a","l","-","r","o","b","e","r","t","s">>, <<"o","r","a","l","-","r","o","b","e","r","t","s">>>>,
    <<<<"o","r","e","g","o","n","-","s","t","a","t","e">>, <<"o","r","e","g","o","n","-","s","t","a","t","e">>>>,
    <<<<"o","r","e","g","o","n">>, <<"o","r","e","g","o","n">>>>,
    <<<<"p","a","c","i","f","i","c">>, <<"p","a","c","i","f","i","c">>>>,
    <<<<"p","e","n","n","-","s","t","a","t","e">>, <<"p","e","n","n","-","s","t","a","t","e">>>>,
    <<<<"p","e","n","n","s","y","l","v","a","n","i","a">>, <<"p","e","n","n","s","y","l","v","a","n","i","a">>>>,
    <<<<"p","e","n","n">>, <<"p","e","n","n","s","y","l","v","a","n","i","a">>>>,
    <<<<"p","e","p","p","e","r","d","i","n","e">>, <<"p","e","p","p","e","r","d","i","n","e">>>>,
    <<<<"p","i","t","t","s","b","u","r","g","h">>, <<"p","i","t","t","s","b","u","r","g","h">>>>,
    <<<<"p","i","t","t">>, <<"p","i","t","t","s","b","u","r","g","h">>>>,
    <<<<"p","o","r","t","l","a","n","d","-","s","t","a","t","e">>, <<"p","o","r","t","l","a","n","d","-","s","t","a","t","e">>>>,
    <<<<"p","o","r","t","l","a","n","d">>, <<"p","o","r","t","l","a","n","d">>>>,
    <<<<"p","r","a","i","r","i","e","-","v","i","e","w">>, <<"p","r","a","i","r","i","e","-","v","i","e","w">>>>,
    <<<<"p","r","a","i","r","i","e","-","v","i","e","w","-","a","m">>, <<"p","r","a","i","r","i","e","-","v","i","e","w">>>>,
    <<<<"p","r","e","s","b","y","t","e","r","i","a","n">>, <<"p","r","e","s","b","y","t","e","r","i","a","n">>>>,
    <<<<"p","r","i","n","c","e","t","o","n">>, <<"p","r","i","n","c","e","t","o","n">>>>,
    <<<<"p","r","o","v","i","d","e","n","c","e">>, <<"p","r","o","v","i","d","e","n","c","e">>>>,
    <<<<"p","u","r","d","u","e">>, <<"p","u","r","d","u","e">>>>,
    <<<<"q","u","i","n","n","i","p","i","a","c">>, <<"q","u","i","n","n","i","p","i","a","c">>>>,
    <<<<"r","a","d","f","o","r","d">>, <<"r","a","d","f","o","r","d">>>>,
    <<<<"r","h","o","d","e","-","i","s","l","a","n","d">>, <<"r","h","o","d","e","-","i","s","l","a","n","d">>>>,
    <<<<"r","i","c","e">>, <<"r","i","c","e">>>>,
    <<<<"r","i","c","h","m","o","n","d">>, <<"r","i","c","h","m","o","n","d">>>>,
    <<<<"r","i","d","e","r">>, <<"r","i","d","e","r">>>>,
    <<<<"r","o","b","e","r","t","-","m","o","r","r","i","s">>, <<"r","o","b","e","r","t","-","m","o","r","r","i","s">>>>,
    <<<<"r","u","t","g","e","r","s">>, <<"r","u","t","g","e","r","s">>>>,
    <<<<"s","a","c","r","a","m","e","n","t","o","-","s","t","a","t","e">>, <<"s","a","c","r","a","m","e","n","t","o","-","s","t","a","t","e">>>>,
    <<<<"s","a","c","r","e","d","-","h","e","a","r","t">>, <<"s","a","c","r","e","d","-","h","e","a","r","t">>>>,
    <<<<"s","a","i","n","t","-","f","r","a","n","c","i","s","-","p","a">>, <<"s","a","i","n","t","-","f","r","a","n","c","i","s","-","p","a">>>>,
    <<<<"s","a","i","n","t","-","j","o","s","e","p","h","s">>, <<"s","a","i","n","t","-","j","o","s","e","p","h","s">>>>,
    <<<<"s","t","-","j","o","s","e","p","h","s">>, <<"s","a","i","n","t","-","j","o","s","e","p","h","s">>>>,
    <<<<"s","a","i","n","t","-","l","o","u","i","s">>, <<"s","a","i","n","t","-","l","o","u","i","s">>>>,
    <<<<"s","a","i","n","t","-","m","a","r","y","s","-","c","a">>, <<"s","a","i","n","t","-","m","a","r","y","s","-","c","a">>>>,
    <<<<"s","a","i","n","t","-","m","a","r","y","s">>, <<"s","a","i","n","t","-","m","a","r","y","s","-","c","a">>>>,
    <<<<"s","a","i","n","t","-","p","e","t","e","r","s">>, <<"s","a","i","n","t","-","p","e","t","e","r","s">>>>,
    <<<<"s","a","m","-","h","o","u","s","t","o","n","-","s","t","a","t","e">>, <<"s","a","m","-","h","o","u","s","t","o","n","-","s","t","a","t","e">>>>,
    <<<<"s","a","m","f","o","r","d">>, <<"s","a","m","f","o","r","d">>>>,
    <<<<"s","a","n","-","d","i","e","g","o","-","s","t","a","t","e">>, <<"s","a","n","-","d","i","e","g","o","-","s","t","a","t","e">>>>,
    <<<<"s","a","n","-","d","i","e","g","o">>, <<"s","a","n","-","d","i","e","g","o">>>>,
    <<<<"s","a","n","-","f","r","a","n","c","i","s","c","o">>, <<"s","a","n","-","f","r","a","n","c","i","s","c","o">>>>,
    <<<<"s","a","n","-","j","o","s","e","-","s","t","a","t","e">>, <<"s","a","n","-","j","o","s","e","-","s","t","a","t","e">>>>,
    <<<<"s","a","n","t","a","-","c","l","a","r","a">>, <<"s","a","n","t","a","-","c","l","a","r","a">>>>,
    <<<<"s","a","v","a","n","n","a","h","-","s","t","a","t","e">>, <<"s","a","v","a","n","n","a","h","-","s","t","a","t","e">>>>,
    <<<<"s","e","a","t","t","l","e">>, <<"s","e","a","t","t","l","e">>>>,
    <<<<"s","e","t","o","n","-","h","a","l","l">>, <<"s","e","t","o","n","-","h","a","l","l">>>>,
    <<<<"s","i","e","n","a">>, <<"s","i","e","n","a">>>>,
    <<<<"s","o","u","t","h","-","a","l","a","b","a","m","a">>, <<"s","o","u","t","h","-","a","l","a","b","a","m","a">>>>,
    <<<<"s","o","u","t","h","-","c","a","r","o","l","i","n","a","-","s","t","a","t","e">>, <<"s","o","u","t","h","-","c","a","r","o","l","i","n","a","-","s","t","a","t","e">>>>,
    <<<<"s","o","u","t","h","-","c","a","r","o","l","i","n","a","-","u","p","s","t","a","t","e">>, <<"s","o","u","t","h","-","c","a","r","o","l","i","n","a","-","u","p","s","t","a","t","e">>>>,
    <<<<"u","s","c","-","u","p","s","t","a","t","e">>, <<"s","o","u","t","h","-","c","a","r","o","l","i","n","a","-","u","p","s","t","a","t","e">>>>,
    <<<<"s","o","u","t","h","-","c","a","r","o","l","i","n","a">>, <<"s","o","u","t","h","-","c","a","r","o","l","i","n","a">>>>,
    <<<<"s","o","u","t","h","-","d","a","k","o","t","a","-","s","t","a","t","e">>, <<"s","o","u","t","h","-","d","a","k","o","t","a","-","s","t","a","t","e">>>>,
    <<<<"s","o","u","t","h","-","d","a","k","o","t","a">>, <<"s","o","u","t","h","-","d","a","k","o","t","a">>>>,
    <<<<"s","o","u","t","h","-","f","l","o","r","i","d","a">>, <<"s","o","u","t","h","-","f","l","o","r","i","d","a">>>>,
    <<<<"s","o","u","t","h","e","a","s","t","-","m","i","s","s","o","u","r","i","-","s","t","a","t","e">>, <<"s","o","u","t","h","e","a","s","t","-","m","i","s","s","o","u","r","i","-","s","t","a","t","e">>>>,
    <<<<"s","o","u","t","h","e","a","s","t","e","r","n","-","l","o","u","i","s","i","a","n","a">>, <<"s","o","u","t","h","e","a","s","t","e","r","n","-","l","o","u","i","s","i","a","n","a">>>>,
    <<<<"s","o","u","t","h","e","r","n","-","c","a","l","i","f","o","r","n","i","a">>, <<"s","o","u","t","h","e","r","n","-","c","a","l","i","f","o","r","n","i","a">>>>,
    <<<<"u","s","c">>, <<"s","o","u","t","h","e","r","n","-","c","a","l","i","f","o","r","n","i","a">>>>,
    <<<<"s","i","u","-","e","d","w","a","r","d","s","v","i","l","l","e">>, <<"s","o","u","t","h","e","r","n","-","i","l","l","i","n","o","i","s","-","e","d","w","a","r","d","s","v","i","l","l","e">>>>,
    <<<<"s","o","u","t","h","e","r","n","-","i","l","l","i","n","o","i","s","-","e","d","w","a","r","d","s","v","i","l","l","e">>, <<"s","o","u","t","h","e","r","n","-","i","l","l","i","n","o","i","s","-","e","d","w","a","r","d","s","v","i","l","l","e">>>>,
    <<<<"s","o","u","t","h","e","r","n","-","i","l","l","i","n","o","i","s">>, <<"s","o","u","t","h","e","r","n","-","i","l","l","i","n","o","i","s">>>>,
    <<<<"s","m","u">>, <<"s","o","u","t","h","e","r","n","-","m","e","t","h","o","d","i","s","t">>>>,
    <<<<"s","o","u","t","h","e","r","n","-","m","e","t","h","o","d","i","s","t">>, <<"s","o","u","t","h","e","r","n","-","m","e","t","h","o","d","i","s","t">>>>,
    <<<<"s","o","u","t","h","e","r","n","-","m","i","s","s">>, <<"s","o","u","t","h","e","r","n","-","m","i","s","s","i","s","s","i","p","p","i">>>>,
    <<<<"s","o","u","t","h","e","r","n","-","m","i","s","s","i","s","s","i","p","p","i">>, <<"s","o","u","t","h","e","r","n","-","m","i","s","s","i","s","s","i","p","p","i">>>>,
    <<<<"s","o","u","t","h","e","r","n","-","u","t","a","h">>, <<"s","o","u","t","h","e","r","n","-","u","t","a","h">>>>,
    <<<<"s","o","u","t","h","e","r","n">>, <<"s","o","u","t","h","e","r","n">>>>,
    <<<<"s","a","i","n","t","-","b","o","n","a","v","e","n","t","u","r","e">>, <<"s","t","-","b","o","n","a","v","e","n","t","u","r","e">>>>,
    <<<<"s","t","-","b","o","n","a","v","e","n","t","u","r","e">>, <<"s","t","-","b","o","n","a","v","e","n","t","u","r","e">>>>,
    <<<<"s","t","-","f","r","a","n","c","i","s","-","n","y">>, <<"s","t","-","f","r","a","n","c","i","s","-","n","y">>>>,
    <<<<"s","a","i","n","t","-","f","r","a","n","c","i","s","-","n","y">>, <<"s","t","-","f","r","a","n","c","i","s","-","n","y">>>>,
    <<<<"s","a","i","n","t","-","j","o","h","n","s">>, <<"s","t","-","j","o","h","n","s","-","n","y">>>>,
    <<<<"s","t","-","j","o","h","n","s","-","n","y">>, <<"s","t","-","j","o","h","n","s","-","n","y">>>>,
    <<<<"s","a","i","n","t","-","j","o","h","n","s","-","n","y">>, <<"s","t","-","j","o","h","n","s","-","n","y">>>>,
    <<<<"s","t","a","n","f","o","r","d">>, <<"s","t","a","n","f","o","r","d">>>>,
    <<<<"s","t","e","p","h","e","n","-","f","-","a","u","s","t","i","n">>, <<"s","t","e","p","h","e","n","-","f","-","a","u","s","t","i","n">>>>,
    <<<<"s","t","e","t","s","o","n">>, <<"s","t","e","t","s","o","n">>>>,
    <<<<"s","t","o","n","y","-","b","r","o","o","k">>, <<"s","t","o","n","y","-","b","r","o","o","k">>>>,
    <<<<"s","y","r","a","c","u","s","e">>, <<"s","y","r","a","c","u","s","e">>>>,
    <<<<"t","e","m","p","l","e">>, <<"t","e","m","p","l","e">>>>,
    <<<<"t","e","n","n","e","s","s","e","e","-","m","a","r","t","i","n">>, <<"t","e","n","n","e","s","s","e","e","-","m","a","r","t","i","n">>>>,
    <<<<"t","e","n","n","e","s","s","e","e","-","s","t","a","t","e">>, <<"t","e","n","n","e","s","s","e","e","-","s","t","a","t","e">>>>,
    <<<<"t","e","n","n","e","s","s","e","e","-","t","e","c","h">>, <<"t","e","n","n","e","s","s","e","e","-","t","e","c","h">>>>,
    <<<<"t","e","n","n","e","s","s","e","e">>, <<"t","e","n","n","e","s","s","e","e">>>>,
    <<<<"t","e","x","a","s","-","a","m","-","c","o","r","p","u","s","-","c","h","r","i","s","t","i">>, <<"t","e","x","a","s","-","a","m","-","c","o","r","p","u","s","-","c","h","r","i","s","t","i">>>>,
    <<<<"t","e","x","a","s","-","a","m","-","c","o","r","p","u","s","-","c","h","r","i","s">>, <<"t","e","x","a","s","-","a","m","-","c","o","r","p","u","s","-","c","h","r","i","s","t","i">>>>,
    <<<<"t","e","x","a","s","-","a","m">>, <<"t","e","x","a","s","-","a","m">>>>,
    <<<<"u","t","-","a","r","l","i","n","g","t","o","n">>, <<"t","e","x","a","s","-","a","r","l","i","n","g","t","o","n">>>>,
    <<<<"t","e","x","a","s","-","a","r","l","i","n","g","t","o","n">>, <<"t","e","x","a","s","-","a","r","l","i","n","g","t","o","n">>>>,
    <<<<"t","c","u">>, <<"t","e","x","a","s","-","c","h","r","i","s","t","i","a","n">>>>,
    <<<<"t","e","x","a","s","-","c","h","r","i","s","t","i","a","n">>, <<"t","e","x","a","s","-","c","h","r","i","s","t","i","a","n">>>>,
    <<<<"t","e","x","a","s","-","e","l","-","p","a","s","o">>, <<"t","e","x","a","s","-","e","l","-","p","a","s","o">>>>,
    <<<<"u","t","e","p">>, <<"t","e","x","a","s","-","e","l","-","p","a","s","o">>>>,
    <<<<"t","e","x","a","s","-","r","i","o","-","g","r","a","n","d","e","-","v","a","l","l","e","y">>, <<"t","e","x","a","s","-","p","a","n","-","a","m","e","r","i","c","a","n">>>>,
    <<<<"u","t","-","r","i","o","-","g","r","a","n","d","e","-","v","a","l","l","e","y">>, <<"t","e","x","a","s","-","p","a","n","-","a","m","e","r","i","c","a","n">>>>,
    <<<<"t","e","x","a","s","-","p","a","n","-","a","m","e","r","i","c","a","n">>, <<"t","e","x","a","s","-","p","a","n","-","a","m","e","r","i","c","a","n">>>>,
    <<<<"t","e","x","a","s","-","s","a","n","-","a","n","t","o","n","i","o">>, <<"t","e","x","a","s","-","s","a","n","-","a","n","t","o","n","i","o">>>>,
    <<<<"u","t","s","a">>, <<"t","e","x","a","s","-","s","a","n","-","a","n","t","o","n","i","o">>>>,
    <<<<"t","e","x","a","s","-","s","o","u","t","h","e","r","n">>, <<"t","e","x","a","s","-","s","o","u","t","h","e","r","n">>>>,
    <<<<"t","e","x","a","s","-","s","t","a","t","e">>, <<"t","e","x","a","s","-","s","t","a","t","e">>>>,
    <<<<"t","e","x","a","s","-","t","e","c","h">>, <<"t","e","x","a","s","-","t","e","c","h">>>>,
    <<<<"t","e","x","a","s">>, <<"t","e","x","a","s">>>>,
    <<<<"t","o","l","e","d","o">>, <<"t","o","l","e","d","o">>>>,
    <<<<"t","o","w","s","o","n">>, <<"t","o","w","s","o","n">>>>,
    <<<<"t","r","o","y">>, <<"t","r","o","y">>>>,
    <<<<"t","u","l","a","n","e">>, <<"t","u","l","a","n","e">>>>,
    <<<<"t","u","l","s","a">>, <<"t","u","l","s","a">>>>,
    <<<<"u","c","l","a">>, <<"u","c","l","a">>>>,
    <<<<"u","t","a","h","-","s","t","a","t","e">>, <<"u","t","a","h","-","s","t","a","t","e">>>>,
    <<<<"u","t","a","h","-","v","a","l","l","e","y">>, <<"u","t","a","h","-","v","a","l","l","e","y">>>>,
    <<<<"u","t","a","h">>, <<"u","t","a","h">>>>,
    <<<<"v","a","l","p","a","r","a","i","s","o">>, <<"v","a","l","p","a","r","a","i","s","o">>>>,
    <<<<"v","a","n","d","e","r","b","i","l","t">>, <<"v","a","n","d","e","r","b","i","l","t">>>>,
    <<<<"v","e","r","m","o","n","t">>, <<"v","e","r","m","o","n","t">>>>,
    <<<<"v","i","l","l","a","n","o","v","a">>, <<"v","i","l","l","a","n","o","v","a">>>>,
    <<<<"v","i","r","g","i","n","i","a","-","c","o","m","m","o","n","w","e","a","l","t","h">>, <<"v","i","r","g","i","n","i","a","-","c","o","m","m","o","n","w","e","a","l","t","h">>>>,
    <<<<"v","c","u">>, <<"v","i","r","g","i","n","i","a","-","c","o","m","m","o","n","w","e","a","l","t","h">>>>,
    <<<<"v","m","i">>, <<"v","i","r","g","i","n","i","a","-","m","i","l","i","t","a","r","y","-","i","n","s","t","i","t","u","t","e">>>>,
    <<<<"v","i","r","g","i","n","i","a","-","m","i","l","i","t","a","r","y","-","i","n","s","t","i","t","u","t","e">>, <<"v","i","r","g","i","n","i","a","-","m","i","l","i","t","a","r","y","-","i","n","s","t","i","t","u","t","e">>>>,
    <<<<"v","i","r","g","i","n","i","a","-","t","e","c","h">>, <<"v","i","r","g","i","n","i","a","-","t","e","c","h">>>>,
    <<<<"v","i","r","g","i","n","i","a">>, <<"v","i","r","g","i","n","i","a">>>>,
    <<<<"w","a","g","n","e","r">>, <<"w","a","g","n","e","r">>>>,
    <<<<"w","a","k","e","-","f","o","r","e","s","t">>, <<"w","a","k","e","-","f","o","r","e","s","t">>>>,
    <<<<"w","a","s","h","i","n","g","t","o","n","-","s","t","a","t","e">>, <<"w","a","s","h","i","n","g","t","o","n","-","s","t","a","t","e">>>>,
    <<<<"w","a","s","h","i","n","g","t","o","n">>, <<"w","a","s","h","i","n","g","t","o","n">>>>,
    <<<<"w","e","b","e","r","-","s","t","a","t","e">>, <<"w","e","b","e","r","-","s","t","a","t","e">>>>,
    <<<<"w","e","s","t","-","v","i","r","g","i","n","i","a">>, <<"w","e","s","t","-","v","i","r","g","i","n","i","a">>>>,
    <<<<"w","e","s","t","e","r","n","-","c","a","r","o","l","i","n","a">>, <<"w","e","s","t","e","r","n","-","c","a","r","o","l","i","n","a">>>>,
    <<<<"w","e","s","t","e","r","n","-","i","l","l","i","n","o","i","s">>, <<"w","e","s","t","e","r","n","-","i","l","l","i","n","o","i","s">>>>,
    <<<<"w","e","s","t","e","r","n","-","k","e","n","t","u","c","k","y">>, <<"w","e","s","t","e","r","n","-","k","e","n","t","u","c","k","y">>>>,
    <<<<"w","e","s","t","e","r","n","-","m","i","c","h","i","g","a","n">>, <<"w","e","s","t","e","r","n","-","m","i","c","h","i","g","a","n">>>>,
    <<<<"w","i","c","h","i","t","a","-","s","t","a","t","e">>, <<"w","i","c","h","i","t","a","-","s","t","a","t","e">>>>,
    <<<<"w","i","l","l","i","a","m","-","m","a","r","y">>, <<"w","i","l","l","i","a","m","-","m","a","r","y">>>>,
    <<<<"w","i","n","t","h","r","o","p">>, <<"w","i","n","t","h","r","o","p">>>>,
    <<<<"w","i","s","c","o","n","s","i","n">>, <<"w","i","s","c","o","n","s","i","n">>>>,
    <<<<"w","o","f","f","o","r","d">>, <<"w","o","f","f","o","r","d">>>>,
    <<<<"w","r","i","g","h","t","-","s","t","a","t","e">>, <<"w","r","i","g","h","t","-","s","t","a","t","e">>>>,
    <<<<"w","y","o","m","i","n","g">>, <<"w","y","o","m","i","n","g">>>>,
    <<<<"x","a","v","i","e","r">>, <<"x","a","v","i","e","r">>>>,
    <<<<"y","a","l","e">>, <<"y","a","l","e">>>>,
    <<<<"y","o","u","n","g","s","t","o","w","n","-","s","t","a","t","e">>, <<"y","o","u","n","g","s","t","o","w","n","-","s","t","a","t","e">>>> }
  IN  [k \in {p[1] : p \in items} |-> (CHOOSE p \in items : p[1] = k)[2]]

\* set(__team_names.values()): the canonical team ids
TeamIds == {__team_names[k] : k \in DOMAIN __team_names}

----------------------------------------------------------------------------
(* parser.py: name_normalizer.                                             *)

St_    == <<"s","t",".">>
Saint  == <<"s","a","i","n","t">>
State  == <<"s","t","a","t","e">>
Uc     == <<"u","c">>
Ncaa   == <<"n","c","a","a">>
California == <<"c","a","l","i","f","o","r","n","i","a">>

\* line 585: unicodedata.normalize("NFKD", str(name)).lower().strip()
CleanUp(name) == Strip(Lower(NFKD(name)))

\* lines 587-596: the "st." special case
ExpandSt(parsed_team) ==
  IF Contains(parsed_team, St_)
  THEN LET tmp == Split(parsed_team) IN
       IF tmp[1] = St_ THEN Replace(parsed_team, St_, Saint)
       ELSE IF tmp[Len(tmp)] = St_ THEN Replace(parsed_team, St_, State)
       ELSE parsed_team
  ELSE parsed_team

\* lines 598-612: junk characters, hyphens, tokens, "uc", blanks
Tokenize(parsed_team) ==
  LET nojunk == RemoveChars(parsed_team, <<"&", "(", ")", "'", ".">>)
      spaced == Replace(nojunk, <<"-">>, <<" ">>)
      words  == SplitOn(spaced, " ")
      ucd    == [i \in 1..Len(words) |-> IF words[i] = Uc THEN California ELSE words[i]]
  IN  NonEmpty(ucd)

\* line 615: "ncaa" in parsed_team
MadeTourney(tokens) == \E i \in 1..Len(tokens) : tokens[i] = Ncaa

\* mutant of LookupKey: the last token is dropped whether or not it follows
\* an "ncaa" token
LookupKey_trimmed(tokens) == Join(<<"-">>, SubSeq(tokens, 1, Len(tokens) - 1))

\* mutant of LookupKey: the tokens are rejoined with spaces
LookupKey_spaces(tokens) ==
  IF MadeTourney(tokens)
  THEN Join(<<" ">>, SubSeq(tokens, 1, Len(tokens) - 1))
  ELSE Join(<<" ">>, tokens)

\* lines 615-620: the lookup key
LookupKey(tokens) ==
  IF MadeTourney(tokens)
  THEN Join(<<"-">>, SubSeq(tokens, 1, Len(tokens) - 1))
  ELSE Join(<<"-">>, tokens)

\* lines 584-620: the key name_normalizer looks up for a raw name
KeyOf(name) == LookupKey(Tokenize(ExpandSt(CleanUp(name))))

\* mutant of name_normalizer: the KeyError of the lookup is swallowed and the
\* key is passed through
name_normalizer_passthrough(name, made_tourney, return_both, ignore_errors) ==
  LET tokens == Tokenize(ExpandSt(CleanUp(name)))
      b_march_madness == IF MadeTourney(tokens) THEN 1 ELSE 0
      key == LookupKey(tokens)
      found == key \in DOMAIN __team_names
      parsed_team == IF found THEN Str(__team_names[key]) ELSE Str(key)
  IN  IF return_both
      THEN [kind |-> "return", value |-> <<parsed_team, b_march_madness>>]
      ELSE IF ~made_tourney
           THEN [kind |-> "return", value |-> parsed_team]
           ELSE [kind |-> "return", value |-> b_march_madness]

\* the value returned, or the exception raised, by
\* name_normalizer(name, made_tourney, return_both, ignore_errors)
name_normalizer(name, made_tourney, return_both, ignore_errors) ==
  LET tokens == Tokenize(ExpandSt(CleanUp(name)))
      b_march_madness == IF MadeTourney(tokens) THEN 1 ELSE 0
      key == LookupKey(tokens)
      found == key \in DOMAIN __team_names
      parsed_team == IF found THEN Str(__team_names[key]) ELSE NaN
  IN  IF ~found /\ ~ignore_errors
      THEN [kind |-> "raise", exc |-> "KeyError",
            msg |-> <<"Incorrect team name: ", key,
                      ". See this function's docs for valid names.">>]
      ELSE IF return_both
           THEN [kind |-> "return", value |-> <<parsed_team, b_march_madness>>]
           ELSE IF ~made_tourney
                THEN [kind |-> "return", value |-> parsed_team]
                ELSE [kind |-> "return", value |-> b_march_madness]

----------------------------------------------------------------------------
(* parser.py: the conference alias table and conf_name_normalizer.         *)

\* the dict literal: alias (key) and canonical id (value) of every entry
__conf_name ==
  LET items == {
    <<<<"m","i","d","-","e","a","s","t","e","r","n"," ","a","t","h","l","e","t","i","c"," ","c","o","n","f","e","r","e","n","c","e">>, <<"m","e","a","c">>>>,
    <<<<"m","e","a","c">>, <<"m","e","a","c">>>>,
    <<<<"m","i","d","-","a","m","e","r","i","c","a","n"," ","c","o","n","f","e","r","e","n","c","e">>, <<"m","a","c">>>>,
    <<<<"m","a","c">>, <<"m","a","c">>>>,
    <<<<"m","o","u","n","t","a","i","n"," ","w","e","s","t"," ","c","o","n","f","e","r","e","n","c","e">>, <<"m","w","c">>>>,
    <<<<"m","w","c">>, <<"m","w","c">>>>,
    <<<<"a","t","l","a","n","t","i","c"," ","1","0"," ","c","o","n","f","e","r","e","n","c","e">>, <<"a","t","l","a","n","t","i","c","-","1","0">>>>,
    <<<<"a","-","1","0">>, <<"a","t","l","a","n","t","i","c","-","1","0">>>>,
    <<<<"a","1","0">>, <<"a","t","l","a","n","t","i","c","-","1","0">>>>,
    <<<<"a","t","l","a","n","t","i","c","-","1","0">>, <<"a","t","l","a","n","t","i","c","-","1","0">>>>,
    <<<<"m","i","s","s","o","u","r","i"," ","v","a","l","l","e","y"," ","c","o","n","f","e","r","e","n","c","e">>, <<"m","v","c">>>>,
    <<<<"m","v","c">>, <<"m","v","c">>>>,
    <<<<"s","o","u","t","h","e","r","n"," ","c","o","n","f","e","r","e","n","c","e">>, <<"s","o","u","t","h","e","r","n">>>>,
    <<<<"s","c">>, <<"s","o","u","t","h","e","r","n">>>>,
    <<<<"s","o","u","t","h","e","r","n">>, <<"s","o","u","t","h","e","r","n">>>>,
    <<<<"i","v","y"," ","g","r","o","u","p">>, <<"i","v","y">>>>,
    <<<<"i","v","y">>, <<"i","v","y">>>>,
    <<<<"s","u","n"," ","b","e","l","t"," ","c","o","n","f","e","r","e","n","c","e">>, <<"s","u","n","-","b","e","l","t">>>>,
    <<<<"s","u","n"," ","b","e","l","t">>, <<"s","u","n","-","b","e","l","t">>>>,
    <<<<"s","b">>, <<"s","u","n","-","b","e","l","t">>>>,
    <<<<"s","u","n","-","b","e","l","t">>, <<"s","u","n","-","b","e","l","t">>>>,
    <<<<"c","o","n","f","e","r","e","n","c","e"," ","u","s","a">>, <<"c","u","s","a">>>>,
    <<<<"c","u","s","a">>, <<"c","u","s","a">>>>,
    <<<<"w","e","s","t","e","r","n"," ","a","t","h","l","e","t","i","c"," ","c","o","n","f","e","r","e","n","c","e">>, <<"w","a","c">>>>,
    <<<<"w","a","c">>, <<"w","a","c">>>>,
    <<<<"h","o","r","i","z","o","n"," ","l","e","a","g","u","e">>, <<"h","o","r","i","z","o","n">>>>,
    <<<<"h","o","r","i","z","o","n">>, <<"h","o","r","i","z","o","n">>>>,
    <<<<"h","o","r","z">>, <<"h","o","r","i","z","o","n">>>>,
    <<<<"c","o","l","o","n","i","a","l"," ","a","t","h","l","e","t","i","c"," ","a","s","s","o","c","i","a","t","i","o","n">>, <<"c","o","l","o","n","i","a","l">>>>,
    <<<<"c","a","a">>, <<"c","o","l","o","n","i","a","l">>>>,
    <<<<"c","o","l","o","n","i","a","l">>, <<"c","o","l","o","n","i","a","l">>>>,
    <<<<"b","i","g"," ","w","e","s","t"," ","c","o","n","f","e","r","e","n","c","e">>, <<"b","i","g","-","w","e","s","t">>>>,
    <<<<"b","w">>, <<"b","i","g","-","w","e","s","t">>>>,
    <<<<"b","i","g"," ","w","e","s","t">>, <<"b","i","g","-","w","e","s","t">>>>,
    <<<<"b","i","g","-","w","e","s","t">>, <<"b","i","g","-","w","e","s","t">>>>,
    <<<<"a","t","l","a","n","t","i","c"," ","s","u","n"," ","c","o","n","f","e","r","e","n","c","e">>, <<"a","t","l","a","n","t","i","c","-","s","u","n">>>>,
    <<<<"a","-","s","u","n">>, <<"a","t","l","a","n","t","i","c","-","s","u","n">>>>,
    <<<<"a","s","u","n">>, <<"a","t","l","a","n","t","i","c","-","s","u","n">>>>,
    <<<<"a","t","l","a","n","t","i","c","-","s","u","n">>, <<"a","t","l","a","n","t","i","c","-","s","u","n">>>>,
    <<<<"s","u","m","m","i","t"," ","l","e","a","g","u","e">>, <<"s","u","m","m","i","t">>>>,
    <<<<"s","u","m","m","i","t">>, <<"s","u","m","m","i","t">>>>,
    <<<<"s","u","m">>, <<"s","u","m","m","i","t">>>>,
    <<<<"p","a","t","r","i","o","t"," ","l","e","a","g","u","e">>, <<"p","a","t","r","i","o","t">>>>,
    <<<<"p","a","t","r","i","o","t">>, <<"p","a","t","r","i","o","t">>>>,
    <<<<"p","a","t">>, <<"p","a","t","r","i","o","t">>>>,
    <<<<"o","h","i","o"," ","v","a","l","l","e","y"," ","c","o","n","f","e","r","e","n","c","e">>, <<"o","v","c">>>>,
    <<<<"o","v","c">>, <<"o","v","c">>>>,
    <<<<"b","i","g"," ","s","o","u","t","h"," ","c","o","n","f","e","r","e","n","c","e">>, <<"b","i","g","-","s","o","u","t","h">>>>,
    <<<<"b","i","g"," ","s","o","u","t","h">>, <<"b","i","g","-","s","o","u","t","h">>>>,
    <<<<"b","i","g","-","s","o","u","t","h">>, <<"b","i","g","-","s","o","u","t","h">>>>,
    <<<<"b","s","t","h">>, <<"b","i","g","-","s","o","u","t","h">>>>,
    <<<<"a","m","e","r","i","c","a"," ","e","a","s","t"," ","c","o","n","f","e","r","e","n","c","e">>, <<"a","m","e","r","i","c","a","-","e","a","s","t">>>>,
    <<<<"a","e","c">>, <<"a","m","e","r","i","c","a","-","e","a","s","t">>>>,
    <<<<"a","e">>, <<"a","m","e","r","i","c","a","-","e","a","s","t">>>>,
    <<<<"a","m","e","r","i","c","a","-","e","a","s","t">>, <<"a","m","e","r","i","c","a","-","e","a","s","t">>>>,
    <<<<"b","i","g"," ","s","k","y"," ","c","o","n","f","e","r","e","n","c","e">>, <<"b","i","g","-","s","k","y">>>>,
    <<<<"b","i","g"," ","s","k","y">>, <<"b","i","g","-","s","k","y">>>>,
    <<<<"b","i","g","-","s","k","y">>, <<"b","i","g","-","s","k","y">>>>,
    <<<<"b","s","k","y">>, <<"b","i","g","-","s","k","y">>>>,
    <<<<"m","e","t","r","o"," ","a","t","l","a","n","t","i","c"," ","a","t","h","l","e","t","i","c"," ","c","o","n","f","e","r","e","n","c","e">>, <<"m","a","a","c">>>>,
    <<<<"m","a","a","c">>, <<"m","a","a","c">>>>,
    <<<<"s","o","u","t","h","l","a","n","d"," ","c","o","n","f","e","r","e","n","c","e">>, <<"s","o","u","t","h","l","a","n","d">>>>,
    <<<<"s","o","u","t","h","l","a","n","d">>, <<"s","o","u","t","h","l","a","n","d">>>>,
    <<<<"s","l","n","d">>, <<"s","o","u","t","h","l","a","n","d">>>>,
    <<<<"n","o","r","t","h","e","a","s","t"," ","c","o","n","f","e","r","e","n","c","e">>, <<"n","o","r","t","h","e","a","s","t">>>>,
    <<<<"n","e","c">>, <<"n","o","r","t","h","e","a","s","t">>>>,
    <<<<"n","o","r","t","h","e","a","s","t">>, <<"n","o","r","t","h","e","a","s","t">>>>,
    <<<<"s","o","u","t","h","w","e","s","t"," ","a","t","h","l","e","t","i","c"," ","c","o","n","f","e","r","e","n","c","e">>, <<"s","w","a","c">>>>,
    <<<<"s","w","a","c">>, <<"s","w","a","c">>>>,
    <<<<"b","i","g"," ","t","e","n"," ","c","o","n","f","e","r","e","n","c","e">>, <<"b","i","g","-","t","e","n">>>>,
    <<<<"b","i","g"," ","t","e","n">>, <<"b","i","g","-","t","e","n">>>>,
    <<<<"b","1","0">>, <<"b","i","g","-","t","e","n">>>>,
    <<<<"b","i","g","-","t","e","n">>, <<"b","i","g","-","t","e","n">>>>,
    <<<<"b","i","g"," ","1","2"," ","c","o","n","f","e","r","e","n","c","e">>, <<"b","i","g","-","1","2">>>>,
    <<<<"b","1","2">>, <<"b","i","g","-","1","2">>>>,
    <<<<"b","i","g"," ","1","2">>, <<"b","i","g","-","1","2">>>>,
    <<<<"b","i","g","-","1","2">>, <<"b","i","g","-","1","2">>>>,
    <<<<"a","t","l","a","n","t","i","c"," ","c","o","a","s","t"," ","c","o","n","f","e","r","e","n","c","e">>, <<"a","c","c">>>>,
    <<<<"a","c","c">>, <<"a","c","c">>>>,
    <<<<"s","o","u","t","h","e","a","s","t","e","r","n"," ","c","o","n","f","e","r","e","n","c","e">>, <<"s","e","c">>>>,
    <<<<"s","e","c">>, <<"s","e","c">>>>,
    <<<<"b","i","g"," ","e","a","s","t"," ","c","o","n","f","e","r","e","n","c","e">>, <<"b","i","g","-","e","a","s","t">>>>,
    <<<<"b","e">>, <<"b","i","g","-","e","a","s","t">>>>,
    <<<<"b","i","g"," ","e","a","s","t">>, <<"b","i","g","-","e","a","s","t">>>>,
    <<<<"b","i","g","-","e","a","s","t">>, <<"b","i","g","-","e","a","s","t">>>>,
    <<<<"p","a","c","i","f","i","c","-","1","2"," ","c","o","n","f","e","r","e","n","c","e">>, <<"p","a","c","-","1","2">>>>,
    <<<<"p","a","c"," ","1","2">>, <<"p","a","c","-","1","2">>>>,
    <<<<"p","1","2">>, <<"p","a","c","-","1","2">>>>,
    <<<<"p","a","c","-","1","2">>, <<"p","a","c","-","1","2">>>>,
    <<<<"p","a","c","i","f","i","c","-","1","0"," ","c","o","n","f","e","r","e","n","c","e">>, <<"p","a","c","-","1","0">>>>,
    <<<<"p","a","c"," ","1","0">>, <<"p","a","c","-","1","0">>>>,
    <<<<"p","a","c","-","1","0">>, <<"p","a","c","-","1","0">>>>,
    <<<<"p","1","0">>, <<"p","a","c","-","1","0">>>>,
    <<<<"a","m","e","r","i","c","a","n"," ","a","t","h","l","e","t","i","c"," ","c","o","n","f","e","r","e","n","c","e">>, <<"a","a","c">>>>,
    <<<<"a","m","e","r">>, <<"a","a","c">>>>,
    <<<<"a","a","c">>, <<"a","a","c">>>>,
    <<<<"w","e","s","t"," ","c","o","a","s","t"," ","c","o","n","f","e","r","e","n","c","e">>, <<"w","c","c">>>>,
    <<<<"w","c","c">>, <<"w","c","c">>>>,
    <<<<"g","r","e","a","t"," ","w","e","s","t"," ","c","o","n","f","e","r","e","n","c","e">>, <<"g","r","e","a","t","-","w","e","s","t">>>>,
    <<<<"g","r","e","a","t","-","w","e","s","t">>, <<"g","r","e","a","t","-","w","e","s","t">>>>,
    <<<<"g","w","c">>, <<"g","r","e","a","t","-","w","e","s","t">>>>,
    <<<<"i","n","d">>, <<"i","n","d">>>> }
  IN  [k \in {p[1] : p \in items} |-> (CHOOSE p \in items : p[1] = k)[2]]

\* set(__conf_name.values()): the canonical conference ids
ConfIds == {__conf_name[k] : k \in DOMAIN __conf_name}

\* line 670: the parenthesised directional qualifiers
Qualifiers ==
  { <<"(","e","a","s","t",")">>, <<"(","w","e","s","t",")">>,
    <<"(","s","o","u","t","h",")">>, <<"(","n","o","r","t","h",")">> }

\* lines 666-671: the key conf_name_normalizer looks up for a raw name
ConfKey(name) ==
  LET parsed_conf == Strip(Lower(NFKD(name))) IN
  IF \E q \in Qualifiers : Contains(parsed_conf, q)
  THEN LET words == SplitOn(parsed_conf, " ")
       IN  Join(<<"-">>, SubSeq(words, 1, Len(words) - 1))
  ELSE parsed_conf

\* the value returned, or the exception raised, by
\* conf_name_normalizer(name, ignore_errors). The message of line 681 is a
\* plain string literal, not an f-string: it is one piece of text and holds
\* the characters {parsed_conf}, not the key.
conf_name_normalizer(name, ignore_errors) ==
  LET key   == ConfKey(name)
      found == key \in DOMAIN __conf_name
  IN  IF found THEN [kind |-> "return", value |-> Str(__conf_name[key])]
      ELSE IF ignore_errors THEN [kind |-> "return", value |-> NaN]
      ELSE [kind |-> "raise", exc |-> "KeyError",
            msg |-> <<"Incorrect conference name: {parsed_conf}. See this function's docs for valid names.">>]

----------------------------------------------------------------------------
(* parser.py: get_all_teams and get_all_confs.                             *)

\* the characters of the canonical ids, in code point order
CodePoints ==
  <<"-", "0","1","2","3","4","5","6","7","8","9",
    "a","b","c","d","e","f","g","h","i","j","k","l","m",
    "n","o","p","q","r","s","t","u","v","w","x","y","z">>

Ord(c) == CHOOSE i \in 1..Len(CodePoints) : CodePoints[i] = c

\* str < str: lexicographic by code point, a proper prefix first
RECURSIVE StrLess(_, _)
StrLess(a, b) ==
  IF b = <<>> THEN FALSE
  ELSE IF a = <<>> THEN TRUE
  ELSE IF Head(a) = Head(b) THEN StrLess(Tail(a), Tail(b))
  ELSE Ord(Head(a)) < Ord(Head(b))

\* set(table.values()): the values of the table, each once
ValueSet(table) == {table[k] : k \in DOMAIN table}

\* mutant of Places: descending order
Places_descending(S) ==
  {<<1 + Cardinality({y \in S : StrLess(x, y)}), x>> : x \in S}

\* np.sort on a list of distinct str: each element with its place in
\* ascending order, one more than the number of elements below it
Places(S) ==
  {<<1 + Cardinality({y \in S : StrLess(y, x)}), x>> : x \in S}

\* list(.) of the sorted array: the element at each place
Listed(places) ==
  [p \in 1..Cardinality(places) |-> (CHOOSE q \in places : q[1] = p)[2]]

\* np.sort(list(set(__team_names.values()))), line 700
SortedTeams == Places(ValueSet(__team_names))

\* np.sort(list(set(__conf_name.values()))), line 716
SortedConfs == Places(ValueSet(__conf_name))

\* get_all_teams, lines 687-700
get_all_teams == Listed(SortedTeams)

\* get_all_confs, lines 703-716
get_all_confs == Listed(SortedConfs)

----------------------------------------------------------------------------
(* process.py: values of a season log.                                     *)

\* the columns process_game_logs reads from the caller's table
BaseCols == {"Team", "Opponent", "Date", "Location", "TeamPoints",
             "OpponentPoints", "team_won"}

\* line 95: featureCols
featureCols == <<"FGA", "FG%", "PF", "3P%", "FT%", "ORtg", "DRtg", "Pace",
                 "FTr", "3PAr", "TS%", "TRB%", "AST%", "STL%", "BLK%",
                 "eFG%", "TOV%", "ORB%", "FT/FGA", "DRB%">>

\* lines 100-113: team_cols, opp_cols and the metadata columns of final_cols
final_cols ==
  [i \in 1..Len(featureCols) |-> <<"team_", featureCols[i]>>]
    \o [i \in 1..Len(featureCols) |-> <<"opp_", featureCols[i]>>]
    \o <<"team_name", "opponent_name", "team_at_home", "neutral_site",
         "team_won", "total_score", "Date", "Location", "home_name">>

\* the value of a decimal digit character
Digits == <<"0","1","2","3","4","5","6","7","8","9">>
DigitVal(c) == (CHOOSE i \in 1..10 : Digits[i] = c) - 1

RECURSIVE ParseInt(_)
ParseInt(s) ==
  IF s = <<>> THEN 0 ELSE 10 * ParseInt(SubSeq(s, 1, Len(s) - 1)) + DigitVal(s[Len(s)])

\* line 92: pd.to_datetime(., format="%Y-%m-%d") on one value of the Date
\* column, a string YYYY-MM-DD
to_datetime(s) ==
  [t |-> "Timestamp", year |-> ParseInt(SubSeq(s, 1, 4)),
   month |-> ParseInt(SubSeq(s, 6, 7)), day |-> ParseInt(SubSeq(s, 9, 10))]

\* Timestamp < Timestamp
DateLess(a, b) ==
  \/ a.year < b.year
  \/ a.year = b.year /\ a.month < b.month
  \/ a.year = b.year /\ a.month = b.month /\ a.day < b.day

\* mutant of __home_name: a neutral site counts as the opponent's home
__home_name_neutral_away(location, team, opponent) ==
  IF location = "H" THEN team ELSE opponent

\* lines 22-43: __home_name
__home_name(location, team, opponent) ==
  IF location = "H" \/ location = "N" THEN team ELSE opponent

\* lines 84-92: the columns the function writes into the caller's table
Derive(row) ==
  [c \in DOMAIN row \cup {"home_name", "team_at_home", "neutral_site", "total_score"} |->
     CASE c = "home_name"    -> __home_name(row.Location, row.Team, row.Opponent)
       [] c = "team_at_home" -> IF row.Location = "H" THEN 1 ELSE 0
       [] c = "neutral_site" -> IF row.Location = "N" THEN 1 ELSE 0
       [] c = "total_score"  -> row.TeamPoints + row.OpponentPoints
       [] c = "Date"         -> to_datetime(row.Date)
       [] OTHER              -> row[c]]

----------------------------------------------------------------------------
(* process.py: the aggregation.                                            *)

\* line 119, 121: the positions in d of the rows of one group of
\* d.groupby("Team"), in the order of d
RECURSIVE GroupRows(_, _, _)
GroupRows(d, team, from) ==
  IF from > Len(d) THEN <<>>
  ELSE IF d[from].Team = team
       THEN <<from>> \o GroupRows(d, team, from + 1)
       ELSE GroupRows(d, team, from + 1)

get_group(d, team) == GroupRows(d, team, 1)

\* mutant of Prior: the date filter admits the date of the game itself
RECURSIVE Prior_inclusive(_, _, _)
Prior_inclusive(d, grp, date) ==
  IF grp = <<>> THEN <<>>
  ELSE IF ~DateLess(date, d[Head(grp)].Date)
       THEN <<Head(grp)>> \o Prior_inclusive(d, Tail(grp), date)
       ELSE Prior_inclusive(d, Tail(grp), date)

\* lines 134, 140: grp[grp["Date"] < date], the rows of a group dated before date
RECURSIVE Prior(_, _, _)
Prior(d, grp, date) ==
  IF grp = <<>> THEN <<>>
  ELSE IF DateLess(d[Head(grp)].Date, date)
       THEN <<Head(grp)>> \o Prior(d, Tail(grp), date)
       ELSE Prior(d, Tail(grp), date)

RECURSIVE Gcd(_, _)
Gcd(a, b) == IF b = 0 THEN a ELSE Gcd(b, a % b)

\* numpy.isnan
IsNaN(v) == "nan" \in DOMAIN v

\* the sum (sum/den) and the number n of the values of a column that are not
\* NaN, over the rows at positions rows
RECURSIVE SumPresent(_, _, _)
SumPresent(d, rows, col) ==
  IF rows = <<>> THEN [sum |-> 0, den |-> 1, n |-> 0]
  ELSE LET rest == SumPresent(d, Tail(rows), col)
           v    == d[Head(rows)][col]
       IN  IF IsNaN(v) THEN rest
           ELSE [sum |-> rest.sum * v.den + v.num * rest.den,
                 den |-> rest.den * v.den, n |-> rest.n + 1]

\* lines 153-154: astype(float).aggregate(np.nanmean) on one column: the mean
\* of the values that are not NaN, and NaN when there is none
nanmean(d, rows, col) ==
  LET a == SumPresent(d, rows, col) IN
  IF a.n = 0 THEN NaN
  ELSE LET g == Gcd(a.sum, a.den * a.n) IN Float(a.sum \div g, (a.den * a.n) \div g)

\* mutant of GameRow: the copied fields are taken from the latest prior
\* record of the team, not from the game itself
GameRow_previous(d, parsed_team, ii_row, tmp, opp_tmp) ==
  [team_means    |-> [c \in Range(featureCols) |-> nanmean(d, tmp, c)],
   opp_means     |-> [c \in Range(featureCols) |-> nanmean(d, opp_tmp, c)],
   team_name     |-> parsed_team,
   opponent_name |-> d[ii_row].Opponent,
   team_at_home  |-> d[tmp[Len(tmp)]].team_at_home,
   neutral_site  |-> d[tmp[Len(tmp)]].neutral_site,
   team_won      |-> d[tmp[Len(tmp)]].team_won,
   total_score   |-> d[tmp[Len(tmp)]].total_score,
   Date          |-> d[tmp[Len(tmp)]].Date,
   Location      |-> d[tmp[Len(tmp)]].Location,
   home_name     |-> d[tmp[Len(tmp)]].home_name,
   game          |-> ii_row,
   team_rows     |-> tmp,
   opp_rows      |-> opp_tmp]

\* lines 149-183: the row built for the game at position ii of the team's
\* group. game, team_rows and opp_rows record the positions in the table of
\* the game and of the rows the two sets of means were computed from.
GameRow(d, parsed_team, ii_row, tmp, opp_tmp) ==
  [team_means    |-> [c \in Range(featureCols) |-> nanmean(d, tmp, c)],
   opp_means     |-> [c \in Range(featureCols) |-> nanmean(d, opp_tmp, c)],
   team_name     |-> parsed_team,
   opponent_name |-> d[ii_row].Opponent,
   team_at_home  |-> d[ii_row].team_at_home,
   neutral_site  |-> d[ii_row].neutral_site,
   team_won      |-> d[ii_row].team_won,
   total_score   |-> d[ii_row].total_score,
   Date          |-> d[ii_row].Date,
   Location      |-> d[ii_row].Location,
   home_name     |-> d[ii_row].home_name,
   game          |-> ii_row,
   team_rows     |-> tmp,
   opp_rows      |-> opp_tmp]

\* lines 126-183: the loop over the games ii, ii+1, ... of the team's group
RECURSIVE Games(_, _, _, _)
Games(d, parsed_team, team_df, ii) ==
  IF ii > Len(team_df) THEN <<>>
  ELSE LET ii_row  == team_df[ii]
           opp     == d[ii_row].Opponent
           date    == d[ii_row].Date
           tmp     == Prior(d, team_df, date)
           opp_df  == get_group(d, opp)
           opp_tmp == Prior(d, opp_df, date)
           rest    == Games(d, parsed_team, team_df, ii + 1)
       IN  IF opp_df = <<>> THEN rest                   \* KeyError: continue
           ELSE IF opp_tmp = <<>> \/ tmp = <<>> THEN rest   \* .empty: continue
           ELSE <<GameRow(d, parsed_team, ii_row, tmp, opp_tmp)>> \o rest

None == [t |-> "NoneType"]

\* the team argument: a team with a log, a team of the alias table without
\* a log, a name the alias table does not know
TeamArgs == { <<"A","k","r","o","n">>, <<"Y","a","l","e">>,
              <<"F","i","c","t","i","o","n","a","l"," ","U">> }

\* lines 81-82: parser.name_normalizer(team, made_tourney=False,
\* return_both=False, ignore_errors=False), tabulated over the team arguments
NormalizedTeamArg ==
  [team \in TeamArgs |-> name_normalizer(team, FALSE, FALSE, FALSE)]


\* mutant of process_game_logs: the columns are derived before the team
\* name is normalized
process_game_logs_derive_first(d, team, skip_first_n, bnd) ==
  LET parsed == NormalizedTeamArg[team] IN
  IF parsed.kind = "raise"
  THEN [df |-> [i \in 1..Len(d) |-> Derive(d[i])], result |-> parsed]
  ELSE
  LET parsed_team == parsed.value.s
      derived     == [i \in 1..Len(d) |-> Derive(d[i])]
      teamDf      == get_group(derived, parsed_team)
  IN  IF bnd = "as_written"
      THEN [df |-> derived,
            result |-> [kind |-> "raise", exc |-> "NameError",
                        msg |-> <<"name '", "feature_cols", "' is not defined">>]]
      ELSE IF teamDf = <<>>
           THEN [df |-> derived, result |-> [kind |-> "return", value |-> None]]
           ELSE [df |-> derived,
                 result |-> [kind |-> "return",
                             value |-> [t |-> "DataFrame", columns |-> final_cols,
                                        rows |-> Games(derived, parsed_team, teamDf,
                                                       skip_first_n + 1)]]]

\* process_game_logs(df, team, skip_first_n): the table the caller is left
\* with and the value returned or exception raised. bnd tells how the names
\* feature_cols (line 103), team_tf (line 128) and team_df (lines 128-180)
\* resolve: "as_written", they are bound nowhere (the function binds
\* featureCols and teamDf) and line 103 raises NameError; "names_unified",
\* each denotes the object bound under its camel-case spelling.
process_game_logs(d, team, skip_first_n, bnd) ==
  LET parsed == NormalizedTeamArg[team] IN
  IF parsed.kind = "raise" THEN [df |-> d, result |-> parsed]
  ELSE
  LET parsed_team == parsed.value.s
      derived     == [i \in 1..Len(d) |-> Derive(d[i])]
      teamDf      == get_group(derived, parsed_team)
  IN  IF bnd = "as_written"
      THEN [df |-> derived,
            result |-> [kind |-> "raise", exc |-> "NameError",
                        msg |-> <<"name '", "feature_cols", "' is not defined">>]]
      ELSE IF teamDf = <<>>
           THEN [df |-> derived, result |-> [kind |-> "return", value |-> None]]
           ELSE [df |-> derived,
                 result |-> [kind |-> "return",
                             value |-> [t |-> "DataFrame", columns |-> final_cols,
                                        rows |-> Games(derived, parsed_team, teamDf,
                                                       skip_first_n + 1)]]]

----------------------------------------------------------------------------
(* scraper.py: tables, and the game log pages the scrapers read.           *)

\* a pandas DataFrame: its index, its column names in order and, per row, the
\* cell of every column
DataFrame(index, columns, rows) ==
  [t |-> "DataFrame", index |-> index, columns |-> columns, rows |-> rows]

\* the elements of a sequence at the positions keep, in their order
RECURSIVE Take(_, _, _)
Take(seq, keep, from) ==
  IF from > Len(seq) THEN <<>>
  ELSE IF from \in keep THEN <<seq[from]>> \o Take(seq, keep, from + 1)
       ELSE Take(seq, keep, from + 1)

\* frame[mask]: the rows at the positions keep
Rows(frame, keep) ==
  DataFrame(Take(frame.index, keep, 1), frame.columns, Take(frame.rows, keep, 1))

\* frame.drop(columns=names)
Drop(frame, names) ==
  LET columns == SelectSeq(frame.columns, LAMBDA c : c \notin names) IN
  DataFrame(frame.index, columns,
            [i \in 1..Len(frame.rows) |-> [c \in Range(columns) |-> frame.rows[i][c]]])

\* frame[name] = values: an existing column is overwritten in place, a new
\* one is appended
Assign(frame, name, values) ==
  LET columns == IF name \in Range(frame.columns) THEN frame.columns
                 ELSE Append(frame.columns, name)
  IN  DataFrame(frame.index, columns,
                [i \in 1..Len(frame.rows) |->
                   [c \in Range(columns) |->
                      IF c = name THEN values[i] ELSE frame.rows[i][c]]])

\* frame[name]: the cells of a column
Column(frame, name) == [i \in 1..Len(frame.rows) |-> frame.rows[i][name]]

\* frame.rename(columns=col_map): col_map is a function on the names it renames
Rename(frame, col_map) ==
  LET new(c) == IF c \in DOMAIN col_map THEN col_map[c] ELSE c
      columns == [k \in 1..Len(frame.columns) |-> new(frame.columns[k])]
  IN  DataFrame(frame.index, columns,
                [i \in 1..Len(frame.rows) |->
                   [c \in Range(columns) |->
                      frame.rows[i][CHOOSE o \in Range(frame.columns) : new(o) = c]]])

\* lines 60, 62, 176, 178: the seasons the scrapers accept
MaxSeason == 2024

MinSeason == 2011

\* the team's and the opponent's box score columns of the basic table, as
\* read_html names them (lines 117-125)
BasicStats ==
  <<"FG", "FGA", "FG%", "3P", "3PA", "3P%", "FT", "FTA", "FT%", "ORB", "TRB",
    "AST", "STL", "BLK", "TOV", "PF">>

BasicOppStats ==
  <<"FG.1", "FGA.1", "FG%.1", "3P.1", "3PA.1", "3P%.1", "FT.1", "FTA.1",
    "FT%.1", "ORB.1", "TRB.1", "AST.1", "STL.1", "BLK.1", "TOV.1", "PF.1">>

\* the columns of the table sgl-basic_NCAAM read with header=1, index_col=1:
\* the second column, Date, is the index
BasicColumns ==
  <<"G", "Unnamed: 2", "Opp", "W/L", "Tm", "Opp.1">> \o BasicStats
    \o <<"Unnamed: 23">> \o BasicOppStats

\* the team's and the opponent's columns of the advanced table (lines 223-229)
AdvStats ==
  <<"ORtg", "DRtg", "Pace", "FTr", "3PAr", "TS%", "TRB%", "AST%", "STL%", "BLK%",
    "eFG%", "TOV%", "ORB%", "FT/FGA">>

AdvOppStats == <<"eFG%.1", "TOV%.1", "DRB%", "FT/FGA.1">>

\* the columns of the table sgl-advanced read with header=1, index_col=1
AdvColumns ==
  <<"G", "Unnamed: 2", "Opp", "W/L", "Tm", "Opp.1">> \o SubSeq(AdvStats, 1, 10)
    \o <<"Unnamed: 17">> \o SubSeq(AdvStats, 11, 14)
    \o <<"Unnamed: 22">> \o AdvOppStats

\* one row of a game log page as the site lists it: a game, a repeated header
\* row inside the table, or a blank row
PageGame(date, at, opp, wl, tm, opp1) ==
  [kind |-> "game", Date |-> Str(date), at |-> at, Opp |-> Str(opp),
   WL |-> Str(wl), Tm |-> tm, Opp1 |-> opp1]

HeaderRow == [kind |-> "header"]

BlankRow == [kind |-> "blank"]

\* the index cell (Date) of a page row
IndexCell(g) ==
  CASE g.kind = "game"   -> g.Date
    [] g.kind = "header" -> Str(<<"D","a","t","e">>)
    [] OTHER             -> NaN

\* the cell of a page row under a column; stats and opp_stats are the
\* statistics columns of the team and of the opponent
PageCell(g, c, n, stats, opp_stats) ==
  CASE g.kind = "header" -> Str(<<c>>)
    [] g.kind = "blank"  -> NaN
    [] OTHER ->
       CASE c = "G"          -> Float(n, 1)
         [] c = "Unnamed: 2" -> g.at
         [] c = "Opp"        -> g.Opp
         [] c = "W/L"        -> g.WL
         [] c = "Tm"         -> Float(g.Tm, 1)
         [] c = "Opp.1"      -> Float(g.Opp1, 1)
         [] c \in stats      -> Float(g.Tm, 2)
         [] c \in opp_stats  -> Float(g.Opp1, 2)
         [] OTHER            -> NaN

\* lines 79-80: pd.read_html(r.content, attrs={'id': 'sgl-basic_NCAAM'},
\* header=1, index_col=1)[0]
BasicPage(games) ==
  DataFrame([i \in 1..Len(games) |-> IndexCell(games[i])], BasicColumns,
            [i \in 1..Len(games) |->
               [c \in Range(BasicColumns) |->
                  PageCell(games[i], c, i, Range(BasicStats), Range(BasicOppStats))]])

\* lines 191-192: pd.read_html(url, attrs={'id': 'sgl-advanced'}, header=1,
\* index_col=1)[0]
AdvPage(games) ==
  DataFrame([i \in 1..Len(games) |-> IndexCell(games[i])], AdvColumns,
            [i \in 1..Len(games) |->
               [c \in Range(AdvColumns) |->
                  PageCell(games[i], c, i, Range(AdvStats), Range(AdvOppStats))]])

\* the opponent names the pages list: two teams of the alias table, an alias
\* that needs cleaning, a school outside Division I
RawOpponents ==
  { <<"D","u","k","e">>, <<"Y","a","l","e">>,
    <<"S","t","."," ","J","o","h","n","'","s"," ","(","N","Y",")">>,
    <<"C","h","a","m","i","n","a","d","e">> }

\* lines 107, 213: parser.name_normalizer(x, ignore_errors=True), tabulated
\* over the opponent names
NormalizedOpp ==
  [o \in RawOpponents |-> name_normalizer(o, FALSE, FALSE, TRUE)]

\* str(x) of a cell that holds a str or NaN
PyStr(v) == IF IsNaN(v) THEN <<"n","a","n">> ELSE v.s

\* mutant of TeamWon: the marker is compared whole, overtime note included
TeamWon_whole(x) == IF PyStr(x) = <<"W">> THEN 1 ELSE 0

\* lines 128-129, 232-233: str(x).split()[0], then 1 if x == "W" else 0
TeamWon(x) == IF Split(PyStr(x))[1] = <<"W">> THEN 1 ELSE 0

\* lines 88, 194: df[df.index.notnull()]
NotNull(frame) ==
  Rows(frame, {i \in 1..Len(frame.index) : ~IsNaN(frame.index[i])})

\* lines 89, 195: df[df.index != "Date"]
NotHeader(frame) ==
  Rows(frame, {i \in 1..Len(frame.index) : frame.index[i] # Str(<<"D","a","t","e">>)})

\* lines 92, 198: df.index = pd.to_datetime(df.index, format="%Y-%m-%d")
DateIndex(frame) ==
  DataFrame([i \in 1..Len(frame.index) |-> to_datetime(frame.index[i].s)],
            frame.columns, frame.rows)

\* lines 96-97, 202-203: the column Unnamed: 2 becomes the column location
LocationColumn(frame) ==
  Drop(Assign(frame, "location", Column(frame, "Unnamed: 2")), {"Unnamed: 2"})

\* lines 100-101, 206-207: fillna("H"), then "A" if x == "@" else x
ParseLocation(frame) ==
  Assign(frame, "location",
    [i \in 1..Len(frame.rows) |->
       LET x == frame.rows[i]["location"] IN
       IF IsNaN(x) THEN Str(<<"H">>)
       ELSE IF x = Str(<<"@">>) THEN Str(<<"A">>) ELSE x])

\* lines 106, 109, 212, 215: the team column holds name on every row
TeamColumn(frame, name) ==
  Assign(frame, "team", [i \in 1..Len(frame.rows) |-> Str(name)])

\* lines 107, 213: df["Opp"].apply(parser.name_normalizer, ignore_errors=True)
\* when the names are normalized
OppColumn(frame, normalize_names) ==
  IF normalize_names
  THEN Assign(frame, "Opp",
         [i \in 1..Len(frame.rows) |-> NormalizedOpp[frame.rows[i]["Opp"].s].value])
  ELSE frame

\* mutant of DropNaOpp: no row is dropped
DropNaOpp_keep(frame) == frame

\* lines 110, 216: df.dropna(subset=["Opp"])
DropNaOpp(frame) ==
  Rows(frame, {i \in 1..Len(frame.rows) : ~IsNaN(frame.rows[i]["Opp"])})

\* lines 113-114, 219-220: the column W/L becomes the column team_won
WinLossColumn(frame) ==
  Drop(Assign(frame, "team_won", Column(frame, "W/L")), {"W/L"})

\* lines 128-129, 232-233: the marker becomes the 0/1 indicator
TeamWonColumn(frame) ==
  Assign(frame, "team_won",
    [i \in 1..Len(frame.rows) |-> TeamWon(frame.rows[i]["team_won"])])

\* lines 88-141 and 194-240, the same steps in both scrapers: junk are the
\* columns dropped at lines 95 and 201, col_map the renaming of lines 132-139
\* and 235-238. astype (lines 117-126, 223-230) changes no cell of a page:
\* the numbers are floats already and the names are str; the str of the W/L
\* marker is taken in TeamWon.
GameLog(page, junk, col_map, team, parsed_team, normalize_names) ==
  Rename(
    TeamWonColumn(WinLossColumn(DropNaOpp(
      OppColumn(
        TeamColumn(
          ParseLocation(LocationColumn(
            Drop(DateIndex(NotHeader(NotNull(page))), junk))),
          IF normalize_names THEN parsed_team ELSE team),
        normalize_names)))),
    col_map)

\* lines 132-138: the renaming of the basic table
BasicColMap ==
  [c \in {"Opp", "Tm", "Opp.1"} \cup Range(BasicOppStats) |->
     CASE c = "Opp"    -> "opponent"
       [] c = "Tm"     -> "team_points"
       [] c = "Opp.1"  -> "opponent_points"
       [] c = "FG.1"   -> "opp_fg"
       [] c = "FGA.1"  -> "opp_fga"
       [] c = "FG%.1"  -> "opp_fg%"
       [] c = "3P.1"   -> "opp_3p"
       [] c = "3PA.1"  -> "opp_3pa"
       [] c = "3P%.1"  -> "opp_3p%"
       [] c = "FT.1"   -> "opp_ft"
       [] c = "FTA.1"  -> "opp_fta"
       [] c = "FT%.1"  -> "opp_ft%"
       [] c = "ORB.1"  -> "opp_orb"
       [] c = "TRB.1"  -> "opp_trb"
       [] c = "AST.1"  -> "opp_ast"
       [] c = "STL.1"  -> "opp_stl"
       [] c = "BLK.1"  -> "opp_blk"
       [] c = "TOV.1"  -> "opp_tov"
       [] c = "PF.1"   -> "opp_pf"]

\* lines 235-237: the renaming of the advanced table
AdvColMap ==
  [c \in {"Opp", "Tm", "Opp.1", "eFG%.1", "TOV%.1", "FT/FGA.1"} |->
     CASE c = "Opp"      -> "opponent"
       [] c = "Tm"       -> "team_points"
       [] c = "Opp.1"    -> "opponent_points"
       [] c = "eFG%.1"   -> "opponent_efg%"
       [] c = "TOV%.1"   -> "opponent_tov%"
       [] c = "FT/FGA.1" -> "opponent_ft_per_fga"]

\* a url of the site: school, season and page
Url(parsed_team, season, page) ==
  [school |-> parsed_team, season |-> season, page |-> page]

\* a request as it leaves the process
Request(url, headers, proxies) ==
  [url |-> url, headers |-> headers, proxies |-> proxies]

\* lines 59-63, 175-179: the exception the season validation raises
FutureSeason ==
  [kind |-> "raise", exc |-> "IOError",
   msg |-> <<"ERROR: Can't scrape data from the future!">>]

UnvalidatedSeason ==
  [kind |-> "raise", exc |-> "IOError",
   msg |-> <<"ERROR: Haven't validated scraping for seasons < 2010-2011!">>]

\* mutant of BasicFetch: an error status raises, as pd.read_html(url) does
BasicFetch_raise_for_status(web, team, parsed_team, r, normalize_names) ==
  IF "exc" \in DOMAIN web.basic
  THEN [result |-> [kind |-> "return", value |-> None], requests |-> <<r>>]
  ELSE IF web.basic.status_code < 400 /\ web.basic.tables > 0
  THEN [result |-> [kind |-> "return",
                    value |-> GameLog(BasicPage(web.games), {"Unnamed: 23", "G"},
                                      BasicColMap, team, parsed_team,
                                      normalize_names)],
        requests |-> <<r>>]
  ELSE [result |-> [kind |-> "raise", exc |-> "HTTPError",
                    msg |-> <<"HTTP Error ", web.basic.status_code>>],
        requests |-> <<r>>]

\* lines 75-86: the request and what becomes of its response: None when the
\* request raises, when the status code is 400 or more, or when pd.read_html
\* finds no table of the id (its ValueError is caught at line 84), else the
\* cleaned table
BasicFetch(web, team, parsed_team, r, normalize_names) ==
  IF "exc" \in DOMAIN web.basic
  THEN [result |-> [kind |-> "return", value |-> None], requests |-> <<r>>]
  ELSE IF web.basic.status_code < 400
  THEN IF web.basic.tables = 0
       THEN [result |-> [kind |-> "return", value |-> None], requests |-> <<r>>]
       ELSE [result |-> [kind |-> "return",
                         value |-> GameLog(BasicPage(web.games), {"Unnamed: 23", "G"},
                                           BasicColMap, team, parsed_team,
                                           normalize_names)],
             requests |-> <<r>>]
  ELSE [result |-> [kind |-> "return", value |-> None], requests |-> <<r>>]

\* lines 66-141, given the outcome parsed of the name_normalizer call
BasicLog(web, team, parsed, season, normalize_names, headers, proxies) ==
  IF parsed.kind = "raise" THEN [result |-> parsed, requests |-> <<>>]
  ELSE BasicFetch(web, team, parsed.value.s,
                  Request(Url(parsed.value.s, season, "gamelogs"), headers, proxies),
                  normalize_names)

\* mutant of scrape_team_game_logs_basic: the name is normalized before the
\* season is validated
scrape_team_game_logs_basic_normalize_first(web, team, season, normalize_names, headers, proxies) ==
  IF NormalizedTeamArg[team].kind = "raise"
  THEN [result |-> NormalizedTeamArg[team], requests |-> <<>>]
  ELSE IF season > MaxSeason THEN [result |-> FutureSeason, requests |-> <<>>]
  ELSE IF season < MinSeason THEN [result |-> UnvalidatedSeason, requests |-> <<>>]
  ELSE BasicLog(web, team, NormalizedTeamArg[team], season, normalize_names,
                headers, proxies)

\* scrape_team_game_logs_basic, lines 27-141: the value returned or the
\* exception raised, and the requests issued, against the site web
scrape_team_game_logs_basic(web, team, season, normalize_names, headers, proxies) ==
  IF season > MaxSeason THEN [result |-> FutureSeason, requests |-> <<>>]
  ELSE IF season < MinSeason THEN [result |-> UnvalidatedSeason, requests |-> <<>>]
  ELSE BasicLog(web, team, NormalizedTeamArg[team], season, normalize_names,
                headers, proxies)

\* lines 191-240: pd.read_html(url) fetches the url itself, with neither the
\* headers nor the proxies of the call; an error status makes it raise, and
\* so does a page without a table of the id
AdvFetch(web, team, parsed_team, r, normalize_names) ==
  IF web.adv.status_code < 400 /\ web.adv.tables = 0
  THEN [result |-> [kind |-> "raise", exc |-> "ValueError",
                    msg |-> <<"No tables found">>],
        requests |-> <<r>>]
  ELSE IF web.adv.status_code < 400
  THEN [result |-> [kind |-> "return",
                    value |-> GameLog(AdvPage(web.games),
                                      {"Unnamed: 17", "Unnamed: 22", "G"},
                                      AdvColMap, team, parsed_team,
                                      normalize_names)],
        requests |-> <<r>>]
  ELSE [result |-> [kind |-> "raise", exc |-> "HTTPError",
                    msg |-> <<"HTTP Error ", web.adv.status_code>>],
        requests |-> <<r>>]

\* lines 182-240, given the outcome parsed of the name_normalizer call
AdvLog(web, team, parsed, season, normalize_names) ==
  IF parsed.kind = "raise" THEN [result |-> parsed, requests |-> <<>>]
  ELSE AdvFetch(web, team, parsed.value.s,
                Request(Url(parsed.value.s, season, "gamelogs-advanced"), None, None),
                normalize_names)

\* scrape_team_game_logs_adv, lines 144-240
scrape_team_game_logs_adv(web, team, season, normalize_names, headers, proxies) ==
  IF season > MaxSeason THEN [result |-> FutureSeason, requests |-> <<>>]
  ELSE IF season < MinSeason THEN [result |-> UnvalidatedSeason, requests |-> <<>>]
  ELSE AdvLog(web, team, NormalizedTeamArg[team], season, normalize_names)

\* a column name with a suffix appended to it
Suffixed(c, suffix) == [name |-> c, suffix |-> suffix]

\* the positions of a sequence that lie in a set, ascending
Positions(n, S) == Take([j \in 1..n |-> j], S, 1)

\* the row pairs of a left join on the index: each left row, in order, with
\* every right row of the same index value, in order, or with none (0)
\* a left row paired with each of the right rows ms, or with none (0)
PairsOf(i, ms) ==
  IF ms = <<>> THEN << <<i, 0>> >> ELSE [k \in 1..Len(ms) |-> <<i, ms[k]>>]

RECURSIVE JoinPairs(_, _, _)
JoinPairs(left, right, i) ==
  IF i > Len(left.index) THEN <<>>
  ELSE PairsOf(i, Positions(Len(right.index),
                            {j \in 1..Len(right.index) : right.index[j] = left.index[i]}))
         \o JoinPairs(left, right, i + 1)

\* the columns of a join: a column name of both tables keeps its name on the
\* left and gets the suffix on the right
LeftColumns(left) ==
  [k \in 1..Len(left.columns) |-> Suffixed(left.columns[k], "")]

RightColumns(left, right, rsuffix) ==
  [k \in 1..Len(right.columns) |->
     Suffixed(right.columns[k],
              IF right.columns[k] \in Range(left.columns) THEN rsuffix ELSE "")]

\* the joined table, given its columns and its row pairs: a left row without
\* a match has NaN in the columns of the right
Joined(left, right, lcols, rcols, pairs) ==
  DataFrame([p \in 1..Len(pairs) |-> left.index[pairs[p][1]]], lcols \o rcols,
            [p \in 1..Len(pairs) |->
               [c \in Range(lcols \o rcols) |->
                  IF c \in Range(lcols) THEN left.rows[pairs[p][1]][c.name]
                  ELSE IF pairs[p][2] = 0 THEN NaN
                  ELSE right.rows[pairs[p][2]][c.name]]])

\* left.join(right, how="left", rsuffix=rsuffix): a join on the index
join(left, right, rsuffix) ==
  Joined(left, right, LeftColumns(left), RightColumns(left, right, rsuffix),
         JoinPairs(left, right, 1))

\* a table whose column names carry no suffix, under the plain names
Unsuffixed(frame) ==
  DataFrame(frame.index, [k \in 1..Len(frame.columns) |-> frame.columns[k].name],
            [i \in 1..Len(frame.rows) |->
               [c \in {x.name : x \in Range(frame.columns)} |->
                  frame.rows[i][Suffixed(c, "")]]])

\* lines 284-285: the columns whose name ends with _dup are dropped
DropDup(frame) ==
  Unsuffixed(Drop(frame, {c \in Range(frame.columns) : c.suffix = "_dup"}))

\* lines 282-287, given the outcomes b and a of the two scrapers: an
\* exception of either propagates, None has no join
JoinLogs(b, a) ==
  IF b.result.kind = "raise" THEN b
  ELSE IF a.result.kind = "raise"
       THEN [result |-> a.result, requests |-> b.requests \o a.requests]
       ELSE IF b.result.value = None
            THEN [result |-> [kind |-> "raise", exc |-> "AttributeError",
                              msg |-> <<"'NoneType' object has no attribute 'join'">>],
                  requests |-> b.requests \o a.requests]
            ELSE [result |-> [kind |-> "return",
                              value |-> DropDup(join(b.result.value, a.result.value,
                                                     "_dup"))],
                  requests |-> b.requests \o a.requests]

\* scrape_team_game_logs, lines 243-287: both scrapers are called with the
\* default headers and proxies (None), then joined
scrape_team_game_logs(web, team, season, normalize_names, headers, proxies) ==
  JoinLogs(
    scrape_team_game_logs_basic(web, team, season, normalize_names, None, None),
    scrape_team_game_logs_adv(web, team, season, normalize_names, None, None))

----------------------------------------------------------------------------
(* Season logs and arguments handed to process_game_logs.                  *)

Akron == <<"a","k","r","o","n">>
Duke  == <<"d","u","k","e">>
Yale  == <<"y","a","l","e">>

\* three consecutive days across a month end
SeasonDates ==
  << <<"2","0","1","9","-","0","1","-","3","0">>,
     <<"2","0","1","9","-","0","1","-","3","1">>,
     <<"2","0","1","9","-","0","2","-","0","1">> >>

\* box scores: venue, points, outcome and the statistics of one game
BoxScores ==
  << [Location |-> "H", TeamPoints |-> 70, OpponentPoints |-> 60, team_won |-> 1,
      stats |-> [c \in Range(featureCols) |-> Float(2, 1)]],
     [Location |-> "A", TeamPoints |-> 55, OpponentPoints |-> 65, team_won |-> 0,
      stats |-> [c \in Range(featureCols) |-> IF c = "FG%" THEN NaN ELSE Float(4, 1)]],
     [Location |-> "N", TeamPoints |-> 80, OpponentPoints |-> 79, team_won |-> 1,
      stats |-> [c \in Range(featureCols) |-> IF c = "FGA" THEN Float(7, 1) ELSE NaN]] >>

\* one row of a season log, as read from the csv the scraper wrote
LogRow(team, opponent, date, box) ==
  [c \in BaseCols \cup Range(featureCols) |->
     CASE c = "Team"           -> team
       [] c = "Opponent"       -> opponent
       [] c = "Date"           -> date
       [] c = "Location"       -> box.Location
       [] c = "TeamPoints"     -> box.TeamPoints
       [] c = "OpponentPoints" -> box.OpponentPoints
       [] c = "team_won"       -> box.team_won
       [] OTHER                -> box.stats[c]]

\* the rows season logs are made of: akron against duke on each date and
\* against yale on the second, duke against akron on the first two dates;
\* yale has no log of its own
InputRows ==
  { LogRow(Akron, Duke, SeasonDates[i], BoxScores[(i % 3) + 1]) : i \in 1..3 }
    \cup { LogRow(Akron, Yale, SeasonDates[2], BoxScores[1]) }
    \cup { LogRow(Duke, Akron, SeasonDates[i], BoxScores[((i + 1) % 3) + 1]) : i \in 1..2 }

\* season logs: MaxRows rows at most, in any order, at least one row
SeasonLogs == UNION {[1..n -> InputRows] : n \in 1..MaxRows}

----------------------------------------------------------------------------
(* process_game_logs as a state machine: one call on a drawn season log.   *)

\* binding = "as_written" is the module as shipped; "names_unified" is the
\* same code with feature_cols, team_tf and team_df denoting featureCols and
\* teamDf, the only reading under which lines 103-188 run at all. Claims about
\* the loop are settled over both.
Init ==
  /\ df \in SeasonLogs
  /\ binding \in {"as_written", "names_unified"}
  /\ call = NoCall
  /\ result = NoCall
  /\ nn_call = NoCall
  /\ nn_result = NoCall
  /\ site = NoCall
  /\ requests = <<>>
  /\ sc_call = NoCall
  /\ sc_result = NoCall
  /\ dt_call = NoCall
  /\ dt_result = NoCall

CallProcessGameLogs ==
  /\ call = NoCall
  /\ \E team \in TeamArgs, skip_first_n \in 0..MaxWarmup :
       LET out == process_game_logs(df, team, skip_first_n, binding) IN
         /\ call' = [kind |-> "process_game_logs", team |-> team,
                     skip_first_n |-> skip_first_n, df |-> df]
         /\ df' = out.df
         /\ result' = out.result
  /\ UNCHANGED <<binding, nn_call, nn_result, site, requests, sc_call, sc_result, dt_call, dt_result>>

Next == CallProcessGameLogs

Spec == Init /\ [][Next]_vars

----------------------------------------------------------------------------
(* Claims about process_game_logs.                                         *)

ProcDone == call # NoCall

\* the call returned a table
ReturnedTable ==
  ProcDone /\ result.kind = "return" /\ result.value.t = "DataFrame"

\* the team argument is a name of the alias table
KnownTeam == ProcDone /\ NormalizedTeamArg[call.team].kind = "return"

\* the canonical id of the team argument
CanonicalTeam == NormalizedTeamArg[call.team].value.s

\* the day of the season a date string of the season log names: its place
\* in the calendar order of SeasonDates
DayOf(s) == CHOOSE i \in 1..Len(SeasonDates) : SeasonDates[i] = s

\* the positions of a team's records in the log handed to the call
LogOf(team) == {j \in 1..Len(call.df) : call.df[j].Team = team}

\* the day of the record at position j of the log handed to the call
DayAt(j) == DayOf(call.df[j].Date)

C2_RunsToCompletion ==
  (KnownTeam /\ LogOf(CanonicalTeam) # {}) => ReturnedTable

\* the games of the team, by position in its log (0-based, in the order of
\* the season log), that the claim C3 counts as skipped: at index >= warmup,
\* with no strictly earlier record of the team or of the opponent
SkippedGames(team, warmup) ==
  LET log == get_group(call.df, team) IN
  {ii \in (warmup + 1)..Len(log) :
     \/ ~\E j \in LogOf(team) : DayAt(j) < DayAt(log[ii])
     \/ ~\E j \in LogOf(call.df[log[ii]].Opponent) : DayAt(j) < DayAt(log[ii])}

\* C3: for a team with N games in the log and N > warmup, the call emits
\* exactly (N - warmup) rows minus the games at index >= warmup skipped for
\* want of a strictly earlier record of the team or the opponent, and no
\* game yields two rows.
C3_RowCount ==
  (KnownTeam /\ Cardinality(LogOf(CanonicalTeam)) > call.skip_first_n) =>
    /\ ReturnedTable
    /\ Len(result.value.rows) =
         Cardinality(LogOf(CanonicalTeam)) - call.skip_first_n
           - Cardinality(SkippedGames(CanonicalTeam, call.skip_first_n))
    /\ \A i, j \in 1..Len(result.value.rows) :
         i # j => result.value.rows[i].game # result.value.rows[j].game

C6_InputUnchanged == ProcDone => df = call.df

\* C7: for a team of the alias table with no record in the season log the
\* call raises nothing and returns a result with zero rows.
C7_NoRecordsEmptyResult ==
  (KnownTeam /\ LogOf(CanonicalTeam) = {}) =>
    /\ ReturnedTable
    /\ result.value.rows = <<>>

\* the records of a team dated strictly before the game at position g of the
\* log handed to the call
PriorRecords(team, g) == {j \in LogOf(team) : DayAt(j) < DayAt(g)}

\* the sum, as a fraction sum/den, of a statistic over the records at the
\* positions P of the log handed to the call
RECURSIVE SumOver(_, _)
SumOver(P, c) ==
  IF P = {} THEN [sum |-> 0, den |-> 1]
  ELSE LET j    == CHOOSE x \in P : TRUE
           rest == SumOver(P \ {j}, c)
           v    == call.df[j][c]
       IN  [sum |-> rest.sum * v.den + v.num * rest.den, den |-> rest.den * v.den]

\* m is the arithmetic mean of a statistic over those of the records at S in
\* which it is present, and the undefined marker when it is present in none
MeanOfPresent(m, S, c) ==
  LET P == {j \in S : ~IsNaN(call.df[j][c])}
      s == SumOver(P, c)
  IN  IF P = {} THEN m = NaN
      ELSE ~IsNaN(m) /\ m.num * s.den * Cardinality(P) = s.sum * m.den

\* the games of the team at index >= warmup that have a strictly earlier
\* record both of the team and of the opponent
QualifyingGames ==
  LET log == get_group(call.df, CanonicalTeam) IN
  {log[ii] : ii \in {k \in (call.skip_first_n + 1)..Len(log) :
     /\ PriorRecords(CanonicalTeam, log[k]) # {}
     /\ PriorRecords(call.df[log[k]].Opponent, log[k]) # {}}}

\* C15: mean with missing values. Every qualifying game of the team yields a
\* row, also when a statistic is missing in all its prior records, and each
\* aggregate of the row is the mean over the prior records in which the
\* statistic is present, NaN (not zero) when it is present in none.
C15_MeanWithMissing ==
  KnownTeam =>
    \A g \in QualifyingGames :
      /\ ReturnedTable
      /\ \E i \in 1..Len(result.value.rows) :
           LET r == result.value.rows[i] IN
             /\ r.game = g
             /\ \A c \in Range(featureCols) :
                  /\ MeanOfPresent(r.team_means[c], PriorRecords(CanonicalTeam, g), c)
                  /\ MeanOfPresent(r.opp_means[c],
                                   PriorRecords(call.df[g].Opponent, g), c)

\* C16: a game of the team (at index >= warmup) whose opponent has no record
\* in the log, or none strictly before the game's date, is skipped without
\* raising: the call returns a table with no row for that game, and with a
\* row for every later game of the team that qualifies.
C16_OpponentWithoutHistorySkipped ==
  KnownTeam =>
    LET log == get_group(call.df, CanonicalTeam) IN
    \A ii \in (call.skip_first_n + 1)..Len(log) :
      PriorRecords(call.df[log[ii]].Opponent, log[ii]) = {} =>
        /\ ReturnedTable
        /\ \A i \in 1..Len(result.value.rows) : result.value.rows[i].game # log[ii]
        /\ \A k \in (ii + 1)..Len(log) :
             log[k] \in QualifyingGames =>
               \E i \in 1..Len(result.value.rows) : result.value.rows[i].game = log[k]

C21_UnknownTeamLeavesLog ==
  (ProcDone /\ ~KnownTeam) =>
    /\ result = NormalizedTeamArg[call.team]
    /\ result.kind = "raise" /\ result.exc = "KeyError"
    /\ df = call.df
    /\ \A i \in 1..Len(df) : "home_name" \notin DOMAIN df[i]

\* C21 witness: process_game_logs was called on "Fictional U" and raised.
C21_Witness ==
  /\ ProcDone
  /\ call.team = <<"F","i","c","t","i","o","n","a","l"," ","U">>
  /\ result.kind = "raise"
  /\ df = call.df

\* C27: after a call for a team of the alias table every record of the season
\* log carries the derived venue fields: team_at_home is 1 exactly at Location
\* "H", neutral_site is 1 exactly at "N", never both; total_score is
\* TeamPoints + OpponentPoints; home_name is the team at "H" and "N" and the
\* opponent at "A".
C27_VenueFields ==
  (ProcDone /\ KnownTeam) =>
    /\ Len(df) = Len(call.df)
    /\ \A i \in 1..Len(df) :
         /\ df[i].team_at_home = (IF call.df[i].Location = "H" THEN 1 ELSE 0)
         /\ df[i].neutral_site = (IF call.df[i].Location = "N" THEN 1 ELSE 0)
         /\ ~(df[i].team_at_home = 1 /\ df[i].neutral_site = 1)
         /\ df[i].total_score = call.df[i].TeamPoints + call.df[i].OpponentPoints
         /\ call.df[i].Location \in {"H", "N"} => df[i].home_name = call.df[i].Team
         /\ call.df[i].Location = "A" => df[i].home_name = call.df[i].Opponent

\* C27 witness: the log of the call held an away game and a game at a neutral
\* site, and both got their fields.
C27_Witness ==
  /\ ProcDone /\ KnownTeam
  /\ \E i, j \in 1..Len(df) :
       /\ call.df[i].Location = "A"
       /\ df[i].home_name = call.df[i].Opponent
       /\ df[i].team_at_home = 0 /\ df[i].neutral_site = 0
       /\ call.df[j].Location = "N"
       /\ df[j].home_name = call.df[j].Team
       /\ df[j].neutral_site = 1
       /\ df[j].total_score = 159

----------------------------------------------------------------------------
(* Raw names handed to name_normalizer.                                    *)

\* words a raw team name is composed of
Vocabulary ==
  { <<"S","t",".">>, <<"O","h","i","o">>, <<"J","o","h","n","'","s">>,
    <<"E","a","s","t",".">>, <<"N","C","A","A">>, <<"U","C">>,
    <<"D","a","v","i","s">> }

\* the names of n words, separated by one space
RECURSIVE Composed(_)
Composed(n) ==
  IF n = 0 THEN {<<>>}
  ELSE IF n = 1 THEN Vocabulary
       ELSE {w \o <<" ">> \o rest : w \in Vocabulary, rest \in Composed(n - 1)}

\* names with surrounding whitespace, junk characters and non-ASCII characters
OddNames ==
  { <<" ","D","u","k","e","\t">>,
    <<"T","e","x","a","s"," ","A","&","M">>,
    <<"S","t",".","nbsp","J","o","h","n","'","s">>,
    <<"S","a","n"," ","J","o","s","e-acute"," ","S","t",".">>,
    <<"M","i","a","m","i"," ","(","F","L",")">>,
    <<"F","i","c","t","i","o","n","a","l"," ","U">>,
    <<>> }

NormInputs ==
  TeamIds \cup DOMAIN __team_names \cup OddNames
    \cup UNION {Composed(n) : n \in 1..MaxTokens}

\* a name followed by a space and a qualifier
Qualified(name, q) == name \o <<" ">> \o q

\* conference names in mixed case, with surrounding whitespace, unknown
ConfOddNames ==
  { <<"P","a","c"," ","1","2"," ","(","S","o","u","t","h",")">>,
    <<"A","C","C">>,
    <<"A","t","l","a","n","t","i","c"," ","C","o","a","s","t"," ",
      "C","o","n","f","e","r","e","n","c","e">>,
    <<" ","B","i","g"," ","T","e","n","\t">>,
    <<"F","i","c","t","i","o","n","a","l"," ","L","e","a","g","u","e">>,
    <<"F","i","c","t","i","o","n","a","l"," ","(","W","e","s","t",")">> }

\* raw names handed to conf_name_normalizer: every alias, alone and followed
\* by each directional qualifier, and the odd names
ConfInputs ==
  DOMAIN __conf_name
    \cup {Qualified(a, q) : a \in DOMAIN __conf_name, q \in Qualifiers}
    \cup ConfOddNames

----------------------------------------------------------------------------
(* The parser as a state machine: one call on drawn arguments.             *)

InitNorm ==
  /\ df = <<>>
  /\ binding = "as_written"
  /\ call = NoCall
  /\ result = NoCall
  /\ nn_call \in
       [fn : {"name_normalizer"}, name : NormInputs, made_tourney : BOOLEAN,
        return_both : BOOLEAN, ignore_errors : BOOLEAN]
         \cup [fn : {"conf_name_normalizer"}, name : ConfInputs,
               ignore_errors : BOOLEAN]
         \cup [fn : {"get_all_teams", "get_all_confs"}]
  /\ nn_result = NoCall
  /\ site = NoCall
  /\ requests = <<>>
  /\ sc_call = NoCall
  /\ sc_result = NoCall
  /\ dt_call = NoCall
  /\ dt_result = NoCall

CallNameNormalizer ==
  /\ nn_call # NoCall
  /\ nn_call.fn = "name_normalizer"
  /\ nn_result = NoCall
  /\ nn_result' = name_normalizer(nn_call.name, nn_call.made_tourney,
                                  nn_call.return_both, nn_call.ignore_errors)
  /\ UNCHANGED <<df, binding, call, result, nn_call,
                  site, requests, sc_call, sc_result, dt_call, dt_result>>

CallConfNameNormalizer ==
  /\ nn_call # NoCall
  /\ nn_call.fn = "conf_name_normalizer"
  /\ nn_result = NoCall
  /\ nn_result' = conf_name_normalizer(nn_call.name, nn_call.ignore_errors)
  /\ UNCHANGED <<df, binding, call, result, nn_call,
                  site, requests, sc_call, sc_result, dt_call, dt_result>>

CallGetAllTeams ==
  /\ nn_call # NoCall
  /\ nn_call.fn = "get_all_teams"
  /\ nn_result = NoCall
  /\ nn_result' = [kind |-> "return", value |-> get_all_teams]
  /\ UNCHANGED <<df, binding, call, result, nn_call,
                  site, requests, sc_call, sc_result, dt_call, dt_result>>

CallGetAllConfs ==
  /\ nn_call # NoCall
  /\ nn_call.fn = "get_all_confs"
  /\ nn_result = NoCall
  /\ nn_result' = [kind |-> "return", value |-> get_all_confs]
  /\ UNCHANGED <<df, binding, call, result, nn_call,
                  site, requests, sc_call, sc_result, dt_call, dt_result>>

NextNorm ==
  \/ CallNameNormalizer
  \/ CallConfNameNormalizer
  \/ CallGetAllTeams
  \/ CallGetAllConfs

SpecNorm == InitNorm /\ [][NextNorm]_vars

----------------------------------------------------------------------------
(* The scrapers as a state machine: one call against a drawn site.         *)

MaxGames == 2

\* the rows a game log page is made of, in the order of the season: two
\* games on the first day, a repeated header row, a blank row, a game
\* against a school outside Division I, an away game
PageRows ==
  << PageGame(SeasonDates[1], NaN, <<"D","u","k","e">>, <<"W">>, 70, 60),
     PageGame(SeasonDates[1], Str(<<"@">>), <<"Y","a","l","e">>,
              <<"W"," ","(","1"," ","O","T",")">>, 61, 58),
     HeaderRow,
     BlankRow,
     PageGame(SeasonDates[2], Str(<<"N">>), <<"C","h","a","m","i","n","a","d","e">>,
              <<"L"," ","(","2"," ","O","T",")">>, 88, 90),
     PageGame(SeasonDates[3], Str(<<"@">>),
              <<"S","t","."," ","J","o","h","n","'","s"," ","(","N","Y",")">>,
              <<"L">>, 55, 65) >>

\* what the site answers to the basic and to the advanced request: a status
\* code and the number of tables of the wanted id on the page, or the exception
\* requests.get raises
Page == [status_code |-> 200, tables |-> 1]

NotFound == [status_code |-> 404, tables |-> 0]

\* a page that holds no table of the id the scrapers ask for
NoTable == [status_code |-> 200, tables |-> 0]

Responses ==
  { [basic |-> Page, adv |-> Page],
    [basic |-> NotFound, adv |-> Page],
    [basic |-> [exc |-> "ConnectionError"], adv |-> Page],
    [basic |-> NoTable, adv |-> Page],
    [basic |-> Page, adv |-> NotFound],
    [basic |-> Page, adv |-> NoTable] }

\* the sites: the pages list MaxGames rows at most, in the order of the season
Sites ==
  { [games |-> Take(PageRows, S, 1), basic |-> r.basic, adv |-> r.adv] :
      S \in {T \in SUBSET (1..Len(PageRows)) : Cardinality(T) <= MaxGames},
      r \in Responses }

\* the seasons around the two limits of the validation
Seasons == {MinSeason - 1, MinSeason, MaxSeason, MaxSeason + 1}

UserAgent == [t |-> "dict", key |-> "User-Agent"]

Proxy == [t |-> "dict", key |-> "http"]

ScCalls ==
  [fn : {"scrape_team_game_logs_basic", "scrape_team_game_logs_adv",
         "scrape_team_game_logs"},
   team : { <<"A","k","r","o","n">>,
            <<"F","i","c","t","i","o","n","a","l"," ","U">> },
   season : Seasons, normalize_names : BOOLEAN,
   headers : {None, UserAgent}, proxies : {None, Proxy}]

InitScrape ==
  /\ df = <<>>
  /\ binding = "as_written"
  /\ call = NoCall
  /\ result = NoCall
  /\ nn_call = NoCall
  /\ nn_result = NoCall
  /\ site \in Sites
  /\ requests = <<>>
  /\ sc_call \in ScCalls
  /\ sc_result = NoCall
  /\ dt_call = NoCall
  /\ dt_result = NoCall

CallScrapeBasic ==
  /\ sc_call # NoCall
  /\ sc_call.fn = "scrape_team_game_logs_basic"
  /\ sc_result = NoCall
  /\ LET out == scrape_team_game_logs_basic(site, sc_call.team, sc_call.season,
                  sc_call.normalize_names, sc_call.headers, sc_call.proxies)
     IN  sc_result' = out.result /\ requests' = requests \o out.requests
  /\ UNCHANGED <<df, binding, call, result, nn_call, nn_result, site, sc_call,
                  dt_call, dt_result>>

CallScrapeAdv ==
  /\ sc_call # NoCall
  /\ sc_call.fn = "scrape_team_game_logs_adv"
  /\ sc_result = NoCall
  /\ LET out == scrape_team_game_logs_adv(site, sc_call.team, sc_call.season,
                  sc_call.normalize_names, sc_call.headers, sc_call.proxies)
     IN  sc_result' = out.result /\ requests' = requests \o out.requests
  /\ UNCHANGED <<df, binding, call, result, nn_call, nn_result, site, sc_call,
                  dt_call, dt_result>>

CallScrape ==
  /\ sc_call # NoCall
  /\ sc_call.fn = "scrape_team_game_logs"
  /\ sc_result = NoCall
  /\ LET out == scrape_team_game_logs(site, sc_call.team, sc_call.season,
                  sc_call.normalize_names, sc_call.headers, sc_call.proxies)
     IN  sc_result' = out.result /\ requests' = requests \o out.requests
  /\ UNCHANGED <<df, binding, call, result, nn_call, nn_result, site, sc_call,
                  dt_call, dt_result>>

NextScrape ==
  \/ CallScrapeBasic
  \/ CallScrapeAdv
  \/ CallScrape

SpecScrape == InitScrape /\ [][NextScrape]_vars

----------------------------------------------------------------------------
(* utils.py: the dates of the seasons, and a reader of them.               *)

\* datetime(year, month, day)
datetime(year, month, day) ==
  [t |-> "datetime", year |-> year, month |-> month, day |-> day]

\* start_reg_YYYYZZZZ, by the year ZZZZ the season ends in
start_reg(season) ==
  CASE season = 2011 -> datetime(2010, 11, 8)
    [] season = 2012 -> datetime(2011, 11, 7)
    [] season = 2013 -> datetime(2012, 11, 9)
    [] season = 2014 -> datetime(2013, 11, 8)
    [] season = 2015 -> datetime(2014, 11, 14)
    [] season = 2016 -> datetime(2015, 11, 13)
    [] season = 2017 -> datetime(2016, 11, 11)
    [] season = 2018 -> datetime(2017, 11, 10)
    [] season = 2019 -> datetime(2018, 11, 6)
    [] season = 2020 -> datetime(2019, 11, 5)
    [] season = 2021 -> datetime(2020, 11, 25)
    [] season = 2022 -> datetime(2021, 11, 9)
    [] season = 2023 -> datetime(2021, 11, 7)
    [] season = 2024 -> datetime(2021, 11, 6)

\* end_reg_YYYYZZZZ, by the year ZZZZ the season ends in
end_reg(season) ==
  CASE season = 2011 -> datetime(2011, 3, 13)
    [] season = 2012 -> datetime(2012, 3, 11)
    [] season = 2013 -> datetime(2013, 3, 17)
    [] season = 2014 -> datetime(2014, 3, 16)
    [] season = 2015 -> datetime(2015, 3, 15)
    [] season = 2016 -> datetime(2016, 3, 13)
    [] season = 2017 -> datetime(2017, 3, 12)
    [] season = 2018 -> datetime(2018, 3, 11)
    [] season = 2019 -> datetime(2019, 3, 17)
    [] season = 2020 -> datetime(2020, 3, 8)
    [] season = 2021 -> datetime(2021, 3, 14)
    [] season = 2022 -> datetime(2022, 3, 13)
    [] season = 2023 -> datetime(2022, 3, 12)
    [] season = 2024 -> datetime(2022, 3, 17)

\* start_tourney_YYYYZZZZ, by the year ZZZZ the season ends in
start_tourney(season) ==
  CASE season = 2011 -> datetime(2011, 3, 15)
    [] season = 2012 -> datetime(2012, 3, 13)
    [] season = 2013 -> datetime(2013, 3, 19)
    [] season = 2014 -> datetime(2014, 3, 18)
    [] season = 2015 -> datetime(2015, 3, 17)
    [] season = 2016 -> datetime(2016, 3, 15)
    [] season = 2017 -> datetime(2017, 3, 14)
    [] season = 2018 -> datetime(2018, 3, 13)
    [] season = 2019 -> datetime(2019, 3, 19)
    [] season = 2020 -> datetime(2020, 3, 17)
    [] season = 2021 -> datetime(2021, 3, 18)
    [] season = 2022 -> datetime(2022, 3, 15)
    [] season = 2023 -> datetime(2022, 3, 14)
    [] season = 2024 -> None

\* end_tourney_YYYYZZZZ, by the year ZZZZ the season ends in
end_tourney(season) ==
  CASE season = 2011 -> datetime(2011, 4, 4)
    [] season = 2012 -> datetime(2012, 4, 2)
    [] season = 2013 -> datetime(2013, 4, 8)
    [] season = 2014 -> datetime(2014, 4, 7)
    [] season = 2015 -> datetime(2015, 4, 6)
    [] season = 2016 -> datetime(2016, 4, 4)
    [] season = 2017 -> datetime(2017, 4, 3)
    [] season = 2018 -> datetime(2018, 4, 2)
    [] season = 2019 -> datetime(2019, 4, 8)
    [] season = 2020 -> datetime(2020, 4, 6)
    [] season = 2021 -> datetime(2021, 4, 5)
    [] season = 2022 -> datetime(2022, 4, 4)
    [] season = 2023 -> datetime(2022, 4, 3)
    [] season = 2024 -> None

\* the seasons utils.py has dates for, each named by the year it ends in
DateSeasons == 2011..2024

\* the four dates of a season
SeasonDatesOf(season) ==
  [start_reg |-> start_reg(season), end_reg |-> end_reg(season),
   start_tourney |-> start_tourney(season), end_tourney |-> end_tourney(season)]

\* a client reads the dates of two seasons
InitDates ==
  /\ df = <<>>
  /\ binding = "as_written"
  /\ call = NoCall
  /\ result = NoCall
  /\ nn_call = NoCall
  /\ nn_result = NoCall
  /\ site = NoCall
  /\ requests = <<>>
  /\ sc_call = NoCall
  /\ sc_result = NoCall
  /\ dt_call \in [first : DateSeasons, second : DateSeasons]
  /\ dt_result = NoCall

ReadSeasonDates ==
  /\ dt_call # NoCall
  /\ dt_result = NoCall
  /\ dt_result' = [first |-> SeasonDatesOf(dt_call.first),
                   second |-> SeasonDatesOf(dt_call.second)]
  /\ UNCHANGED <<df, binding, call, result, nn_call, nn_result,
                  site, requests, sc_call, sc_result, dt_call>>

NextDates == ReadSeasonDates

SpecDates == InitDates /\ [][NextDates]_vars

----------------------------------------------------------------------------
(* Claims about name_normalizer.                                           *)

NormDone ==
  nn_call # NoCall /\ nn_result # NoCall /\ nn_call.fn = "name_normalizer"

\* the call's lookup key misses the alias table
LookupMiss == KeyOf(nn_call.name) \notin DOMAIN __team_names

\* C8: on a lookup miss, name_normalizer with ignore_errors=False raises a
\* KeyError whose message carries the failed lookup key; with
\* ignore_errors=True it raises nothing and the name it returns (the result
\* by default, the first component with return_both) is NaN, which is equal
\* to no canonical team id.
C8_UnknownNameContract ==
  (NormDone /\ LookupMiss) =>
    IF ~nn_call.ignore_errors
    THEN /\ nn_result.kind = "raise"
         /\ nn_result.exc = "KeyError"
         /\ nn_result.msg[2] = KeyOf(nn_call.name)
    ELSE /\ nn_result.kind = "return"
         /\ nn_call.return_both => nn_result.value[1] = NaN
         /\ (~nn_call.return_both /\ ~nn_call.made_tourney) =>
              /\ nn_result.value = NaN
              /\ \A c \in TeamIds : ~PyEq(nn_result.value, Str(c))

\* C8 witness: "Fictional U" was looked up with ignore_errors=True and default
\* return shape, and came back as NaN.
C8_Witness ==
  /\ NormDone
  /\ nn_call.name = <<"F","i","c","t","i","o","n","a","l"," ","U">>
  /\ nn_call.ignore_errors /\ ~nn_call.return_both /\ ~nn_call.made_tourney
  /\ nn_result = [kind |-> "return", value |-> NaN]

\* C9: every canonical team id normalises to itself, without raising.
C9_CanonicalIdempotent ==
  (NormDone /\ nn_call.name \in TeamIds
            /\ ~nn_call.made_tourney /\ ~nn_call.return_both) =>
    nn_result = [kind |-> "return", value |-> Str(nn_call.name)]

\* C9 witness: the hyphenated canonical id north-carolina-state was
\* normalised with ignore_errors=False.
C9_Witness ==
  /\ NormDone
  /\ nn_call.name = <<"n","o","r","t","h","-","c","a","r","o","l","i","n","a","-",
                      "s","t","a","t","e">>
  /\ nn_call.name \in TeamIds
  /\ ~nn_call.made_tourney /\ ~nn_call.return_both /\ ~nn_call.ignore_errors
  /\ nn_result.kind = "return"

\* the expansion of "st." the claim C10 describes, on a stripped lower-case
\* name: only a first token "st." becomes "saint", only a last token "st."
\* becomes "state", every other occurrence stays
ClaimedExpandSt(s) ==
  LET tmp     == Split(s)
      firstIs == tmp # <<>> /\ tmp[1] = St_
      lastIs  == Len(tmp) > 1 /\ tmp[Len(tmp)] = St_
      s1      == IF lastIs THEN SubSeq(s, 1, Len(s) - 3) \o State ELSE s
  IN  IF firstIs THEN Saint \o SubSeq(s1, 4, Len(s1)) ELSE s1

\* C10: "st." is expanded to "saint" as the first token and to "state" as the
\* last token, and every other occurrence of "st." in the name is left
\* unchanged; stated on the lookup key a failed lookup reports.
C10_StExpansion ==
  (NormDone /\ nn_result.kind = "raise") =>
    nn_result.msg[2] =
      LookupKey(Tokenize(ClaimedExpandSt(CleanUp(nn_call.name))))

\* the tournament flag and the lookup key the claim C11 describes, from the
\* tokens of a name: the flag is set exactly when the last token is "ncaa",
\* and only then is a token, that last one, dropped
ClaimedFlag(tokens) ==
  IF tokens # <<>> /\ tokens[Len(tokens)] = Ncaa THEN 1 ELSE 0

ClaimedKey(tokens) ==
  IF ClaimedFlag(tokens) = 1
  THEN Join(<<"-">>, SubSeq(tokens, 1, Len(tokens) - 1))
  ELSE Join(<<"-">>, tokens)

\* C11: the tournament flag is 1 exactly when the token sequence ends with
\* "ncaa", and then exactly that trailing token is dropped before the lookup;
\* otherwise the flag is 0 and no token is dropped, also when "ncaa" is a
\* token that is not the last. Stated on the flag a call with return_both
\* returns and on the lookup key a failed lookup reports.
C11_TourneyFlag ==
  NormDone =>
    LET tokens == Tokenize(ExpandSt(CleanUp(nn_call.name))) IN
      /\ (nn_result.kind = "return" /\ nn_call.return_both) =>
           nn_result.value[2] = ClaimedFlag(tokens)
      /\ nn_result.kind = "raise" => nn_result.msg[2] = ClaimedKey(tokens)

\* C20: return shape of name_normalizer. By default the call returns the
\* canonical id (NaN on a suppressed miss); with made_tourney=True the result
\* is not the bare flag but holds the id and the flag; with return_both=True
\* it is the pair (id, flag), whatever made_tourney is.
C20_ReturnShape ==
  (NormDone /\ nn_result.kind = "return") =>
    LET tokens == Tokenize(ExpandSt(CleanUp(nn_call.name)))
        key    == KeyOf(nn_call.name)
        id     == IF key \in DOMAIN __team_names
                  THEN Str(__team_names[key]) ELSE NaN
        flag   == IF MadeTourney(tokens) THEN 1 ELSE 0
    IN  IF nn_call.return_both THEN nn_result.value = <<id, flag>>
        ELSE IF nn_call.made_tourney
             THEN /\ nn_result.value \notin {0, 1}
                  /\ nn_result.value = <<id, flag>>
             ELSE nn_result.value = id

----------------------------------------------------------------------------
(* Claims about conf_name_normalizer, get_all_teams and get_all_confs.     *)

ConfDone ==
  nn_call # NoCall /\ nn_result # NoCall /\ nn_call.fn = "conf_name_normalizer"

\* C12: a trailing parenthesised directional qualifier is stripped before the
\* lookup: for every alias a of the conference table and every qualifier q,
\* conf_name_normalizer(a + " " + q) returns the canonical id of a.
C12_QualifierStripped ==
  ConfDone =>
    \A a \in DOMAIN __conf_name, q \in Qualifiers :
      nn_call.name = Qualified(a, q) =>
        nn_result = [kind |-> "return", value |-> Str(__conf_name[a])]

\* C13: on a lookup miss conf_name_normalizer with ignore_errors=False raises
\* a KeyError whose message carries the failed lookup key (as the message of
\* name_normalizer does, in its second part), and with ignore_errors=True it
\* returns NaN without raising.
C13_ConfUnknownContract ==
  (ConfDone /\ ConfKey(nn_call.name) \notin DOMAIN __conf_name) =>
    IF ~nn_call.ignore_errors
    THEN /\ nn_result.kind = "raise"
         /\ nn_result.exc = "KeyError"
         /\ Len(nn_result.msg) >= 2
         /\ nn_result.msg[2] = ConfKey(nn_call.name)
    ELSE nn_result = [kind |-> "return", value |-> NaN]

GetAllDone ==
  /\ nn_call # NoCall /\ nn_result # NoCall
  /\ nn_call.fn \in {"get_all_teams", "get_all_confs"}

\* the alias table a get_all call enumerates
TableOf(fn) == IF fn = "get_all_teams" THEN __team_names ELSE __conf_name

\* C14: get_all_teams() and get_all_confs() return the values of their alias
\* table as a strictly increasing sequence: every value once, nothing else.
C14_SortedCodomain ==
  GetAllDone =>
    LET r == nn_result.value
        t == TableOf(nn_call.fn)
    IN  /\ \A i \in 1..(Len(r) - 1) : StrLess(r[i], r[i + 1])
        /\ Range(r) = {t[k] : k \in DOMAIN t}
        /\ Len(r) = Cardinality({t[k] : k \in DOMAIN t})

\* C14 witness: get_all_confs() returned the 35 conference ids, acc first;
\* the table has 102 aliases.
C14_Witness ==
  /\ GetAllDone
  /\ nn_call.fn = "get_all_confs"
  /\ Len(nn_result.value) = 35
  /\ nn_result.value[1] = <<"a","a","c">>
  /\ Cardinality(DOMAIN __conf_name) = 102

----------------------------------------------------------------------------
(* Claims about the scrapers.                                              *)

ScDone == sc_call # NoCall /\ sc_result # NoCall

\* the scraper call returned a table
ScReturnedTable ==
  ScDone /\ sc_result.kind = "return" /\ sc_result.value # None

\* the games of the page that a returned log keeps, in the order of the
\* page: header and blank rows are no games, and with normalize_names a game
\* against an opponent outside the alias table is dropped
LoggedGames ==
  Take(site.games,
       {i \in 1..Len(site.games) :
          /\ site.games[i].kind = "game"
          /\ sc_call.normalize_names =>
               ~IsNaN(NormalizedOpp[site.games[i].Opp.s].value)}, 1)

\* the W/L marker up to its first whitespace character
FirstToken(s) ==
  LET cut == {i \in 1..Len(s) : s[i] \in Whitespace} IN
  IF cut = {} THEN s
  ELSE SubSeq(s, 1, (CHOOSE i \in cut : \A j \in cut : i <= j) - 1)

\* C18: scrape_team_game_logs joins the basic and the advanced table on
\* (date, opponent): the result has one row per game of the basic table, in
\* order, each with the advanced statistics of the same game (same date, same
\* opponent), also when two games share a date; columns of both tables hold
\* the basic table's value and no column appears twice.
C18_JoinOnDateAndOpponent ==
  (ScReturnedTable /\ sc_call.fn = "scrape_team_game_logs") =>
    LET g    == LoggedGames
        rows == sc_result.value.rows
        cols == sc_result.value.columns
    IN  /\ Len(rows) = Len(g)
        /\ Len(cols) = Cardinality(Range(cols))
        /\ \A i \in 1..Len(rows) :
             /\ sc_result.value.index[i] = to_datetime(g[i].Date.s)
             /\ rows[i]["opponent"] =
                  (IF sc_call.normalize_names
                   THEN NormalizedOpp[g[i].Opp.s].value ELSE g[i].Opp)
             /\ rows[i]["team_points"] = Float(g[i].Tm, 1)
             /\ rows[i]["opponent_points"] = Float(g[i].Opp1, 1)
             /\ \A c \in Range(BasicStats) :
                  rows[i][c] = PageCell(g[i], c, 0, Range(BasicStats), {})
             /\ \A c \in Range(AdvStats) \cup {"DRB%"} :
                  rows[i][c] = PageCell(g[i], c, 0, Range(AdvStats), {"DRB%"})

\* C19: in the table a scraper returns, team_won of every game is 1 when the
\* first whitespace-delimited token of its W/L marker is W and 0 otherwise
\* (W (1 OT) gives 1, L (2 OT) gives 0), and it is 0 or 1 on every row of
\* every returned table.
C19_WinLossTranslation ==
  ScReturnedTable =>
    LET g    == LoggedGames
        rows == sc_result.value.rows
    IN  /\ \A i \in 1..Len(rows) : rows[i]["team_won"] \in {0, 1}
        /\ sc_call.fn # "scrape_team_game_logs" =>
             /\ Len(rows) = Len(g)
             /\ \A i \in 1..Len(rows) :
                  rows[i]["team_won"] =
                    (IF FirstToken(g[i].WL.s) = <<"W">> THEN 1 ELSE 0)

\* C19 witness: a scraper returned a table with an overtime win, marked
\* W (1 OT) on the page, as team_won = 1.
C19_Witness ==
  /\ ScReturnedTable
  /\ sc_call.fn # "scrape_team_game_logs"
  /\ \E i \in 1..Len(LoggedGames) :
       /\ LoggedGames[i].WL = Str(<<"W"," ","(","1"," ","O","T",")">>)
       /\ sc_result.value.rows[i]["team_won"] = 1

\* C22: in scrape_team_game_logs_basic and scrape_team_game_logs_adv a season
\* above 2024 or below 2011 raises IOError, whatever the team name, with no
\* request issued; a season from 2011 to 2024 raises no IOError.
C22_SeasonValidatedFirst ==
  (ScDone /\ sc_call.fn \in {"scrape_team_game_logs_basic",
                             "scrape_team_game_logs_adv"}) =>
    IF sc_call.season > 2024 \/ sc_call.season < 2011
    THEN /\ sc_result.kind = "raise"
         /\ sc_result.exc = "IOError"
         /\ requests = <<>>
    ELSE ~(sc_result.kind = "raise" /\ sc_result.exc = "IOError")

\* C22 witness: a name the alias table does not know and a season before
\* 2010-2011: the advanced scraper raised the IOError, not the KeyError.
C22_Witness ==
  /\ ScDone
  /\ sc_call.fn = "scrape_team_game_logs_adv"
  /\ sc_call.team = <<"F","i","c","t","i","o","n","a","l"," ","U">>
  /\ sc_call.season = 2010
  /\ sc_result.kind = "raise" /\ sc_result.exc = "IOError"
  /\ requests = <<>>

\* the basic request of the site failed: requests.get raised, the status code
\* is 400 or more, or the page holds no table for pd.read_html
BasicFailed ==
  \/ "exc" \in DOMAIN site.basic
  \/ site.basic.status_code >= 400
  \/ site.basic.tables = 0

\* C23: once scrape_team_game_logs_basic has issued its request, a failed
\* request makes it return None (it raises nothing), and it returns a table
\* only when the response had a status below 400 and was parsed.
C23_BasicFailureIsNone ==
  (ScDone /\ sc_call.fn = "scrape_team_game_logs_basic" /\ requests # <<>>) =>
    /\ BasicFailed => sc_result = [kind |-> "return", value |-> None]
    /\ ~BasicFailed => ScReturnedTable
    /\ ScReturnedTable => ~BasicFailed /\ site.basic.status_code < 400

\* C23 witness: the page answered with status 404 and the call returned None.
C23_Witness ==
  /\ ScDone
  /\ sc_call.fn = "scrape_team_game_logs_basic"
  /\ Len(requests) = 1
  /\ "exc" \notin DOMAIN site.basic
  /\ site.basic.status_code = 404
  /\ sc_result = [kind |-> "return", value |-> None]

\* the advanced request of the site failed: the status code is 400 or more,
\* or the page holds no table for pd.read_html
AdvFailed == site.adv.status_code >= 400 \/ site.adv.tables = 0

\* C24: when the basic or the advanced request fails, scrape_team_game_logs
\* returns None and raises nothing.
C24_FailedFetchIsNone ==
  (/\ ScDone
   /\ sc_call.fn = "scrape_team_game_logs"
   /\ requests # <<>>
   /\ (BasicFailed \/ AdvFailed)) =>
    sc_result = [kind |-> "return", value |-> None]

\* C25: every request a scrape function causes carries the headers and the
\* proxies the function was called with.
C25_HeadersAndProxiesUsed ==
  ScDone =>
    \A i \in 1..Len(requests) :
      /\ requests[i].headers = sc_call.headers
      /\ requests[i].proxies = sc_call.proxies

\* the request of the called scraper failed
FetchFailed ==
  IF sc_call.fn = "scrape_team_game_logs_basic" THEN BasicFailed ELSE AdvFailed

\* the games of the page whose opponent name resolves in the alias table, in
\* the order of the page
ResolvedGames ==
  Take(site.games,
       {i \in 1..Len(site.games) :
          /\ site.games[i].kind = "game"
          /\ KeyOf(site.games[i].Opp.s) \in DOMAIN __team_names}, 1)

\* C26: with normalize_names=True a scraper whose request succeeded returns a
\* table although opponents of the page are missing from the alias table: the
\* rows of exactly those games are dropped, every row left holds the canonical
\* id of its opponent, and the team column holds the canonical id of the team.
C26_UnresolvedOpponentsDropped ==
  /\ (/\ ScDone
      /\ sc_call.fn \in {"scrape_team_game_logs_basic", "scrape_team_game_logs_adv"}
      /\ sc_call.normalize_names
      /\ requests # <<>>
      /\ ~FetchFailed) =>
       /\ ScReturnedTable
       /\ Len(sc_result.value.rows) = Len(ResolvedGames)
       /\ \A i \in 1..Len(ResolvedGames) :
            sc_result.value.rows[i]["opponent"] =
              Str(__team_names[KeyOf(ResolvedGames[i].Opp.s)])
  /\ (ScReturnedTable /\ sc_call.normalize_names) =>
       \A i \in 1..Len(sc_result.value.rows) :
         /\ ~IsNaN(sc_result.value.rows[i]["opponent"])
         /\ sc_result.value.rows[i]["opponent"].s \in TeamIds
         /\ sc_result.value.rows[i]["team"] = Str(<<"a","k","r","o","n">>)

\* C26 witness: the page listed a game against Chaminade, which the alias
\* table does not know, and a game against a known opponent; the basic scraper
\* returned the one row of the known opponent.
C26_Witness ==
  /\ ScReturnedTable
  /\ sc_call.fn = "scrape_team_game_logs_basic"
  /\ sc_call.normalize_names
  /\ \E i \in 1..Len(site.games) :
       /\ site.games[i].kind = "game"
       /\ site.games[i].Opp = Str(<<"C","h","a","m","i","n","a","d","e">>)
  /\ Len(site.games) = 2
  /\ Len(sc_result.value.rows) = 1
  /\ sc_result.value.rows[1]["opponent"].s \in TeamIds

\* C28: every key of the alias table is usable as a name: name_normalizer
\* returns the canonical id the table maps the key to.
C28_EveryAliasResolves ==
  (NormDone /\ nn_call.name \in DOMAIN __team_names
            /\ ~nn_call.made_tourney /\ ~nn_call.return_both) =>
    nn_result = [kind |-> "return", value |-> Str(__team_names[nn_call.name])]

\* C28 witness: the alias n.c.-state, a key with characters the preprocessing
\* removes, was normalised to the id the table gives for it.
C28_Witness ==
  /\ NormDone
  /\ nn_call.name = <<"n",".","c",".","-","s","t","a","t","e">>
  /\ nn_call.name \in DOMAIN __team_names
  /\ ~nn_call.made_tourney /\ ~nn_call.return_both /\ ~nn_call.ignore_errors
  /\ nn_result = [kind |-> "return",
                  value |-> Str(<<"n","o","r","t","h","-","c","a","r","o","l","i","n","a",
                                  "-","s","t","a","t","e">>)]

\* the columns process_game_logs reads: lines 85-92 and the statistics of
\* featureCols
AggregatorColumns == BaseCols \cup Range(featureCols)

\* C29: the table scrape_team_game_logs returns holds every column
\* process_game_logs reads, under the same name: Date, Location, Team,
\* Opponent, TeamPoints, OpponentPoints, team_won and the 20 statistics.
C29_LogIsAggregatorInput ==
  (ScReturnedTable /\ sc_call.fn = "scrape_team_game_logs") =>
    AggregatorColumns \subseteq Range(sc_result.value.columns)

\* the dates of two seasons were read
DatesRead == dt_call # NoCall /\ dt_result # NoCall

\* all four dates of a season are defined
AllDefined(w) ==
  None \notin {w.start_reg, w.end_reg, w.start_tourney, w.end_tourney}

\* C30: a season with all four dates defined has start_reg < end_reg <
\* start_tourney < end_tourney, its start_reg in the first year of its name
\* and the other three dates in the second; and of two such seasons the
\* earlier one ends before the later one starts.
C30_SeasonDatesConsistent ==
  DatesRead =>
    /\ AllDefined(dt_result.first) =>
         /\ DateLess(dt_result.first.start_reg, dt_result.first.end_reg)
         /\ DateLess(dt_result.first.end_reg, dt_result.first.start_tourney)
         /\ DateLess(dt_result.first.start_tourney, dt_result.first.end_tourney)
         /\ dt_result.first.start_reg.year = dt_call.first - 1
         /\ dt_result.first.end_reg.year = dt_call.first
         /\ dt_result.first.start_tourney.year = dt_call.first
         /\ dt_result.first.end_tourney.year = dt_call.first
    /\ (/\ AllDefined(dt_result.first)
        /\ AllDefined(dt_result.second)
        /\ dt_call.first < dt_call.second) =>
         DateLess(dt_result.first.end_tourney, dt_result.second.start_reg)

====
